---- MODULE Spec2Model ----
(***************************************************************************)
(* Model of the Anthropic pipe of src/anthropic_api_pipe.py: the entry     *)
(* point Pipe.pipe, the retry wrapper Pipe._send_request and the streaming *)
(* translator Pipe._stream_with_ui.  One invocation of pipe is followed    *)
(* from the call to the returned value or to the end of the generator.     *)
(***************************************************************************)
EXTENDS Integers, Sequences, FiniteSets, TLC

VARIABLES
    pc,                   \* position of the invocation
    ANTHROPIC_API_KEY,    \* self.valves.ANTHROPIC_API_KEY
    request_id,           \* self.request_id
    result,               \* value returned by pipe
    raised,               \* exception that left pipe or the generator
    validated,            \* calls of validate_total_image_size
    processed,            \* calls of _process_messages
    posts,                \* calls of session.post
    current_tool_use,     \* locals of _stream_with_ui
    tool_use_input_json,
    tool_call_index,
    has_tool_calls,
    emitted,              \* items yielded by the generator, in order
    received,             \* lines read from response.content, in order
    unread,               \* lines of the body left unread when the loop was left
    failure,              \* exception that ended the invocation, None when none
    stream_response,      \* status and body the streaming POST was answered with
    retry_count,          \* local of _send_request
    sleeps,               \* arguments of asyncio.sleep, in order
    attempts,             \* outcome of each session.post of _send_request, in order
    response,             \* value returned by _send_request
    THINKING_BUDGET_TOKENS, \* self.valves.THINKING_BUDGET_TOKENS
    body,                 \* the request given to pipe
    payload,              \* the payload pipe built for the upstream call
    headers,              \* the headers pipe built for the upstream call
    calls,                \* the invocations running on one Pipe instance
    cms_valves,           \* self.valves of the WordPress CMS tool
    _runtime_token,       \* self._runtime_token of the WordPress CMS tool
    _runtime_site_id,     \* self._runtime_site_id of the WordPress CMS tool
    manager_valves,       \* self.valves of the WordPress credential manager
    _credential_cache,    \* _credential_cache of the credential manager
    environ,              \* os.environ: WP_ACCESS_TOKEN, WP_SITE_ID, WP_USERNAME
    wp_call               \* the last call of a WordPress tool and what it returned

vars == <<pc, ANTHROPIC_API_KEY, request_id, result, raised, validated,
          processed, posts, current_tool_use, tool_use_input_json,
          tool_call_index, has_tool_calls, emitted, received, unread,
          failure, stream_response, retry_count, sleeps, attempts, response,
          THINKING_BUDGET_TOKENS, body, payload, headers, calls,
          cms_valves, _runtime_token, _runtime_site_id, manager_valves,
          _credential_cache, environ, wp_call>>

buildVars == <<THINKING_BUDGET_TOKENS, body, payload, headers>>

callVars == <<calls>>

wpVars == <<cms_valves, _runtime_token, _runtime_site_id, manager_valves,
            _credential_cache, environ, wp_call>>

None == "None"

\* Longest upstream body (in lines) that is explored.
MaxLines == 4

-----------------------------------------------------------------------------
(* Exceptions: what each except clause of the file catches.                *)

\* except json.JSONDecodeError (line 657)
CaughtAsJSONDecodeError(e) == e = "JSONDecodeError"

\* except asyncio.TimeoutError (line 663)
CaughtAsTimeoutError(e) == e = "TimeoutError"

\* except aiohttp.ClientError (lines 485 and 893)
CaughtAsClientError(e) == e = "ClientError"

\* a handler "except ValueError" in place of "except Exception"
CaughtAsException_OnlyValueError(e) ==
    e \in {"JSONDecodeError", "UnicodeDecodeError", "ValueError"}

\* except Exception (lines 492 and 668): every exception that is not a
\* BaseException-only class
CaughtAsException(e) ==
    e \in {"JSONDecodeError", "UnicodeDecodeError", "ValueError", "KeyError",
           "TimeoutError", "ClientError"}

-----------------------------------------------------------------------------
(* Upstream lines of a streaming body.  raw tells what the line is before  *)
(* it is an event: not a "data: " line, a payload json.loads rejects with  *)
(* JSONDecodeError, a payload that is not UTF-8 (UnicodeDecodeError), a    *)
(* JSON value without a "type" key (KeyError), or a JSON event.            *)

Line(raw, type, sub, val) == [raw |-> raw, type |-> type, sub |-> sub, val |-> val]

Event(type, sub, val) == Line("json", type, sub, val)

Lines ==
    { Line("nodata", "", "", ""),
      Line("badjson", "", "", ""),
      Line("badutf8", "", "", ""),
      Line("notype", "", "", ""),
      Event("content_block_start", "tool_use", "toolu_1"),
      Event("content_block_start", "text", ""),
      Event("content_block_delta", "text_delta", "Hi"),
      Event("content_block_delta", "input_json_delta", "{"),
      Event("content_block_delta", "input_json_delta", "}"),
      Event("content_block_delta", "input_json_delta", ""),
      Event("content_block_delta", "thinking_delta", "hm"),
      Event("content_block_delta", "citations_delta", "Doc"),
      Event("content_block_stop", "", ""),
      Event("message_stop", "", ""),
      Event("ping", "", "") }

\* content_block.get("name", "") of the tool_use blocks above
ToolName == "search"

-----------------------------------------------------------------------------
(* Items yielded by the generator.                                         *)

\* _create_openai_tool_call_chunk: the delta gets tool_calls and content
\* only when they are non-empty (tool_calls is a list, <<>> when absent)
_create_openai_tool_call_chunk(tool_calls, content, finish_reason) ==
    [object |-> "chat.completion.chunk",
     tool_calls |-> tool_calls,
     content |-> IF content = "" THEN None ELSE content,
     reasoning_content |-> None,
     finish_reason |-> finish_reason]

\* chunk built inline for thinking_delta
ReasoningChunk(thinking_text) ==
    [object |-> "chat.completion.chunk",
     tool_calls |-> <<>>,
     content |-> None,
     reasoning_content |-> thinking_text,
     finish_reason |-> None]

\* "data: [DONE]\n\n"
DoneItem ==
    [object |-> "[DONE]", tool_calls |-> <<>>, content |-> None,
     reasoning_content |-> None, finish_reason |-> None]

\* the error strings: text is the fixed prefix, status and detail what is
\* formatted into it, rid the "(Request ID: ...)" suffix
ErrorText(text, status, detail, rid) ==
    [object |-> "error", text |-> text, status |-> status,
     detail |-> detail, request_id |-> rid]

-----------------------------------------------------------------------------
(* The translator: the body of the "async for line" loop, as a function of *)
(* the locals of _stream_with_ui and of one line.                          *)

Locals(ctu, json, idx, has) ==
    [current_tool_use |-> ctu, tool_use_input_json |-> json,
     tool_call_index |-> idx, has_tool_calls |-> has]

\* current_tool_use = None
NoTool == [id |-> None, name |-> None, index |-> -1]

\* locals at lines 526-530
InitialLocals == Locals(NoTool, "", 0, FALSE)

\* outcome of one pass of the loop body: the locals, the items yielded, the
\* exception raised (None when none) and whether the loop was left by break
Step(st, out, exc, brk) == [st |-> st, out |-> out, exc |-> exc, brk |-> brk]

\* data["type"] == "content_block_start"
ContentBlockStart(st, data) ==
    IF data.sub = "tool_use"
    THEN LET ctu == [id |-> IF data.val = ""
                            THEN "call_" \o ToString(st.tool_call_index)
                            ELSE data.val,
                     name |-> ToolName,
                     index |-> st.tool_call_index]
             initial_chunk == _create_openai_tool_call_chunk(
                 <<[index |-> st.tool_call_index, id |-> ctu.id,
                    type |-> "function", name |-> ctu.name,
                    arguments |-> ""]>>, "", None)
         IN Step(Locals(ctu, "", st.tool_call_index, TRUE),
                 <<initial_chunk>>, None, FALSE)
    ELSE Step(st, <<>>, None, FALSE)

\* ContentBlockDelta whose text_delta branch closes the tool call in progress
ContentBlockDelta_TextClosesTool(st, data) ==
    CASE data.sub = "text_delta" ->
           IF data.val # ""
           THEN Step([st EXCEPT !.current_tool_use = NoTool,
                                !.tool_use_input_json = ""],
                     <<_create_openai_tool_call_chunk(<<>>, data.val, None)>>,
                     None, FALSE)
           ELSE Step(st, <<>>, None, FALSE)
      [] data.sub = "input_json_delta" ->
           IF data.val # "" /\ st.current_tool_use # NoTool
           THEN LET arg_chunk == _create_openai_tool_call_chunk(
                        <<[index |-> st.current_tool_use.index, id |-> None,
                           type |-> None, name |-> None,
                           arguments |-> data.val]>>, "", None)
                IN Step([st EXCEPT !.tool_use_input_json = @ \o data.val],
                        <<arg_chunk>>, None, FALSE)
           ELSE Step(st, <<>>, None, FALSE)
      [] data.sub = "thinking_delta" ->
           IF data.val # ""
           THEN Step(st, <<ReasoningChunk(data.val)>>, None, FALSE)
           ELSE Step(st, <<>>, None, FALSE)
      [] data.sub = "citations_delta" ->
           LET doc_index == 0
               doc_title == data.val
               cite_text == IF doc_title # ""
                            THEN " [" \o ToString(doc_index) \o ": " \o doc_title \o "]"
                            ELSE " [" \o ToString(doc_index) \o "]"
           IN Step(st, <<_create_openai_tool_call_chunk(<<>>, cite_text, None)>>,
                   None, FALSE)
      [] OTHER -> Step(st, <<>>, None, FALSE)

\* ContentBlockDelta that emits the fragments of the accumulated argument
\* string instead of the fragment just received
ContentBlockDelta_EmitsAccumulated(st, data) ==
    CASE data.sub = "text_delta" ->
           IF data.val # ""
           THEN Step(st, <<_create_openai_tool_call_chunk(<<>>, data.val, None)>>,
                     None, FALSE)
           ELSE Step(st, <<>>, None, FALSE)
      [] data.sub = "input_json_delta" ->
           IF data.val # "" /\ st.current_tool_use # NoTool
           THEN LET arg_chunk == _create_openai_tool_call_chunk(
                        <<[index |-> st.current_tool_use.index, id |-> None,
                           type |-> None, name |-> None,
                           arguments |-> st.tool_use_input_json \o data.val]>>,
                        "", None)
                IN Step([st EXCEPT !.tool_use_input_json = @ \o data.val],
                        <<arg_chunk>>, None, FALSE)
           ELSE Step(st, <<>>, None, FALSE)
      [] data.sub = "thinking_delta" ->
           IF data.val # ""
           THEN Step(st, <<ReasoningChunk(data.val)>>, None, FALSE)
           ELSE Step(st, <<>>, None, FALSE)
      [] data.sub = "citations_delta" ->
           LET doc_index == 0
               doc_title == data.val
               cite_text == IF doc_title # ""
                            THEN " [" \o ToString(doc_index) \o ": " \o doc_title \o "]"
                            ELSE " [" \o ToString(doc_index) \o "]"
           IN Step(st, <<_create_openai_tool_call_chunk(<<>>, cite_text, None)>>,
                   None, FALSE)
      [] OTHER -> Step(st, <<>>, None, FALSE)

\* ContentBlockDelta with the test "and current_tool_use" of line 598 dropped
ContentBlockDelta_NoActiveTest(st, data) ==
    CASE data.sub = "text_delta" ->
           IF data.val # ""
           THEN Step(st, <<_create_openai_tool_call_chunk(<<>>, data.val, None)>>,
                     None, FALSE)
           ELSE Step(st, <<>>, None, FALSE)
      [] data.sub = "input_json_delta" ->
           IF data.val # ""
           THEN LET arg_chunk == _create_openai_tool_call_chunk(
                        <<[index |-> st.current_tool_use.index, id |-> None,
                           type |-> None, name |-> None,
                           arguments |-> data.val]>>, "", None)
                IN Step([st EXCEPT !.tool_use_input_json = @ \o data.val],
                        <<arg_chunk>>, None, FALSE)
           ELSE Step(st, <<>>, None, FALSE)
      [] data.sub = "thinking_delta" ->
           IF data.val # ""
           THEN Step(st, <<ReasoningChunk(data.val)>>, None, FALSE)
           ELSE Step(st, <<>>, None, FALSE)
      [] data.sub = "citations_delta" ->
           LET doc_index == 0
               doc_title == data.val
               cite_text == IF doc_title # ""
                            THEN " [" \o ToString(doc_index) \o ": " \o doc_title \o "]"
                            ELSE " [" \o ToString(doc_index) \o "]"
           IN Step(st, <<_create_openai_tool_call_chunk(<<>>, cite_text, None)>>,
                   None, FALSE)
      [] OTHER -> Step(st, <<>>, None, FALSE)

\* ContentBlockDelta with the test "partial_json and" of line 598 dropped
ContentBlockDelta_EmitsEmptyFragment(st, data) ==
    CASE data.sub = "text_delta" ->
           IF data.val # ""
           THEN Step(st, <<_create_openai_tool_call_chunk(<<>>, data.val, None)>>,
                     None, FALSE)
           ELSE Step(st, <<>>, None, FALSE)
      [] data.sub = "input_json_delta" ->
           IF st.current_tool_use # NoTool
           THEN LET arg_chunk == _create_openai_tool_call_chunk(
                        <<[index |-> st.current_tool_use.index, id |-> None,
                           type |-> None, name |-> None,
                           arguments |-> data.val]>>, "", None)
                IN Step([st EXCEPT !.tool_use_input_json = @ \o data.val],
                        <<arg_chunk>>, None, FALSE)
           ELSE Step(st, <<>>, None, FALSE)
      [] data.sub = "thinking_delta" ->
           IF data.val # ""
           THEN Step(st, <<ReasoningChunk(data.val)>>, None, FALSE)
           ELSE Step(st, <<>>, None, FALSE)
      [] data.sub = "citations_delta" ->
           LET doc_index == 0
               doc_title == data.val
               cite_text == IF doc_title # ""
                            THEN " [" \o ToString(doc_index) \o ": " \o doc_title \o "]"
                            ELSE " [" \o ToString(doc_index) \o "]"
           IN Step(st, <<_create_openai_tool_call_chunk(<<>>, cite_text, None)>>,
                   None, FALSE)
      [] OTHER -> Step(st, <<>>, None, FALSE)

\* data["type"] == "content_block_delta"
ContentBlockDelta(st, data) ==
    CASE data.sub = "text_delta" ->
           IF data.val # ""
           THEN Step(st, <<_create_openai_tool_call_chunk(<<>>, data.val, None)>>,
                     None, FALSE)
           ELSE Step(st, <<>>, None, FALSE)
      [] data.sub = "input_json_delta" ->
           IF data.val # "" /\ st.current_tool_use # NoTool
           THEN LET arg_chunk == _create_openai_tool_call_chunk(
                        <<[index |-> st.current_tool_use.index, id |-> None,
                           type |-> None, name |-> None,
                           arguments |-> data.val]>>, "", None)
                IN Step([st EXCEPT !.tool_use_input_json = @ \o data.val],
                        <<arg_chunk>>, None, FALSE)
           ELSE Step(st, <<>>, None, FALSE)
      [] data.sub = "thinking_delta" ->
           IF data.val # ""
           THEN Step(st, <<ReasoningChunk(data.val)>>, None, FALSE)
           ELSE Step(st, <<>>, None, FALSE)
      [] data.sub = "citations_delta" ->
           LET doc_index == 0
               doc_title == data.val
               cite_text == IF doc_title # ""
                            THEN " [" \o ToString(doc_index) \o ": " \o doc_title \o "]"
                            ELSE " [" \o ToString(doc_index) \o "]"
           IN Step(st, <<_create_openai_tool_call_chunk(<<>>, cite_text, None)>>,
                   None, FALSE)
      [] OTHER -> Step(st, <<>>, None, FALSE)

\* ContentBlockStop without the test "if current_tool_use" of line 641
ContentBlockStop_NoActiveTest(st) ==
    Step(Locals(NoTool, "", st.tool_call_index + 1, st.has_tool_calls),
         <<>>, None, FALSE)

\* ContentBlockStop that forgets "tool_call_index += 1" of line 642
ContentBlockStop_NoAdvance(st) ==
    IF st.current_tool_use # NoTool
    THEN Step(Locals(NoTool, "", st.tool_call_index, st.has_tool_calls),
              <<>>, None, FALSE)
    ELSE Step(st, <<>>, None, FALSE)

\* ContentBlockStop that also resets has_tool_calls
ContentBlockStop_ResetsFlag(st) ==
    IF st.current_tool_use # NoTool
    THEN Step(Locals(NoTool, "", st.tool_call_index + 1, FALSE),
              <<>>, None, FALSE)
    ELSE Step(st, <<>>, None, FALSE)

\* data["type"] == "content_block_stop"
ContentBlockStop(st) ==
    IF st.current_tool_use # NoTool
    THEN Step(Locals(NoTool, "", st.tool_call_index + 1, st.has_tool_calls),
              <<>>, None, FALSE)
    ELSE Step(st, <<>>, None, FALSE)

\* MessageStop that yields the sentinel once more after the finish chunk
MessageStop_DoneTwice(st) ==
    LET finish_reason == IF st.has_tool_calls THEN "tool_calls" ELSE "stop"
        finish_chunk == _create_openai_tool_call_chunk(<<>>, "", finish_reason)
    IN Step(st, <<finish_chunk, DoneItem, DoneItem>>, None, TRUE)

\* MessageStop that yields the sentinel before the finish chunk
MessageStop_DoneFirst(st) ==
    LET finish_reason == IF st.has_tool_calls THEN "tool_calls" ELSE "stop"
        finish_chunk == _create_openai_tool_call_chunk(<<>>, "", finish_reason)
    IN Step(st, <<DoneItem, finish_chunk>>, None, TRUE)

\* data["type"] == "message_stop"
MessageStop(st) ==
    LET finish_reason == IF st.has_tool_calls THEN "tool_calls" ELSE "stop"
        finish_chunk == _create_openai_tool_call_chunk(<<>>, "", finish_reason)
    IN Step(st, <<finish_chunk, DoneItem>>, None, TRUE)

\* the try body, lines 552-655
TryBody(st, line) ==
    CASE line.raw = "badjson" -> Step(st, <<>>, "JSONDecodeError", FALSE)
      [] line.raw = "badutf8" -> Step(st, <<>>, "UnicodeDecodeError", FALSE)
      [] line.raw = "notype" -> Step(st, <<>>, "KeyError", FALSE)
      [] line.type = "content_block_start" -> ContentBlockStart(st, line)
      [] line.type = "content_block_delta" -> ContentBlockDelta(st, line)
      [] line.type = "content_block_stop" -> ContentBlockStop(st)
      [] line.type = "message_stop" -> MessageStop(st)
      [] OTHER -> Step(st, <<>>, None, FALSE)

\* one pass of the loop body, lines 550-661: the JSONDecodeError handler
\* continues with the next line, any other exception leaves the loop
HandleLine(st, line) ==
    IF line.raw = "nodata"
    THEN Step(st, <<>>, None, FALSE)
    ELSE LET r == TryBody(st, line)
         IN IF r.exc # None /\ CaughtAsJSONDecodeError(r.exc)
            THEN Step(r.st, r.out, None, FALSE)
            ELSE r

\* the handlers at lines 663-672: the item yielded for an exception that
\* left the try block, and the exception that leaves the generator
StreamExcept(exc, rid) ==
    IF CaughtAsTimeoutError(exc)
    THEN [out |-> <<ErrorText("Request timed out", 0, None, rid)>>, raised |-> None]
    ELSE IF CaughtAsException(exc)
    THEN [out |-> <<ErrorText("Stream error", 0, exc, rid)>>, raised |-> None]
    ELSE [out |-> <<>>, raised |-> exc]

StreamLocals ==
    Locals(current_tool_use, tool_use_input_json, tool_call_index, has_tool_calls)

SetStreamLocals(st) ==
    /\ current_tool_use' = st.current_tool_use
    /\ tool_use_input_json' = st.tool_use_input_json
    /\ tool_call_index' = st.tool_call_index
    /\ has_tool_calls' = st.has_tool_calls

streamLocalVars ==
    <<current_tool_use, tool_use_input_json, tool_call_index, has_tool_calls>>

sendVars == <<retry_count, sleeps, attempts, response>>

pipeVars == <<ANTHROPIC_API_KEY, result, validated, processed>>

-----------------------------------------------------------------------------
(* Values returned by pipe.                                                *)

\* {"content": ..., "format": "text"}
ErrorDict(text, status, detail, rid) ==
    [type |-> "dict", format |-> "text",
     content |-> ErrorText(text, status, detail, rid)]

Generator == [type |-> "generator", format |-> None,
              content |-> ErrorText(None, 0, None, None)]

ResponseText == [type |-> "str", format |-> None,
                 content |-> ErrorText(None, 0, None, None)]

NoResult == [type |-> None, format |-> None,
             content |-> ErrorText(None, 0, None, None)]

RequestIds == {None, "req_1"}

ErrorStatuses == {429, 500}

-----------------------------------------------------------------------------
(* _stream_with_ui                                                         *)

\* session.post raises (connection failure, timeout) before any response
StreamPostRaises(exc) ==
    /\ pc = "stream"
    /\ posts' = posts + 1
    /\ LET h == StreamExcept(exc, request_id)
       IN /\ emitted' = emitted \o h.out
          /\ raised' = h.raised
    /\ failure' = exc
    /\ pc' = "ended"
    /\ UNCHANGED <<request_id, received, unread, stream_response>>
    /\ UNCHANGED <<streamLocalVars, sendVars, pipeVars, buildVars, callVars, wpVars>>

\* the POST is answered with HTTP 200, lines 533-540
StreamPostOK(rid) ==
    /\ pc = "stream"
    /\ posts' = posts + 1
    /\ request_id' = rid
    /\ stream_response' = [status |-> 200, body |-> None]
    /\ pc' = "streaming"
    /\ UNCHANGED <<emitted, raised, received, unread, failure>>
    /\ UNCHANGED <<streamLocalVars, sendVars, pipeVars, buildVars, callVars, wpVars>>

\* StreamPostError without the "return" of line 547: the body is read
StreamPostError_NoReturn(status, rid, exc) ==
    /\ pc = "stream"
    /\ posts' = posts + 1
    /\ request_id' = rid
    /\ IF exc = None
       THEN /\ stream_response' = [status |-> status, body |-> "overloaded"]
            /\ emitted' = emitted \o <<ErrorText("Error: HTTP", status, "overloaded", rid)>>
            /\ raised' = raised
            /\ failure' = exc
            /\ pc' = "streaming"
       ELSE LET h == StreamExcept(exc, rid)
            IN /\ stream_response' = [status |-> status, body |-> None]
               /\ emitted' = emitted \o h.out
               /\ raised' = h.raised
               /\ failure' = exc
               /\ pc' = "ended"
    /\ UNCHANGED <<received, unread>>
    /\ UNCHANGED <<streamLocalVars, sendVars, pipeVars, buildVars, callVars, wpVars>>

\* the POST is answered with another status, lines 540-547; exc is the
\* exception of "await response.text()", None when the body is read
StreamPostError(status, rid, exc) ==
    /\ pc = "stream"
    /\ posts' = posts + 1
    /\ request_id' = rid
    /\ IF exc = None
       THEN /\ stream_response' = [status |-> status, body |-> "overloaded"]
            /\ emitted' = emitted \o <<ErrorText("Error: HTTP", status, "overloaded", rid)>>
            /\ raised' = raised
       ELSE LET h == StreamExcept(exc, rid)
            IN /\ stream_response' = [status |-> status, body |-> None]
               /\ emitted' = emitted \o h.out
               /\ raised' = h.raised
    /\ failure' = exc
    /\ pc' = "ended"
    /\ UNCHANGED <<received, unread>>
    /\ UNCHANGED <<streamLocalVars, sendVars, pipeVars, buildVars, callVars, wpVars>>

\* one line of response.content is read and handled, lines 549-661
StreamLine(line) ==
    /\ pc = "streaming"
    /\ Len(received) < MaxLines
    /\ received' = Append(received, line)
    /\ LET r == HandleLine(StreamLocals, line)
       IN /\ SetStreamLocals(r.st)
          /\ IF r.exc # None
             THEN LET h == StreamExcept(r.exc, request_id)
                  IN /\ emitted' = emitted \o r.out \o h.out
                     /\ raised' = h.raised
                     /\ failure' = r.exc
                     /\ pc' = "ended"
             ELSE /\ emitted' = emitted \o r.out
                  /\ raised' = raised
                  /\ failure' = failure
                  /\ pc' = IF r.brk THEN "ended" ELSE "streaming"
    /\ UNCHANGED <<request_id, posts, unread, stream_response>>
    /\ UNCHANGED <<sendVars, pipeVars, buildVars, callVars, wpVars>>

\* reading response.content raises (timeout of the whole call, connection
\* lost)
StreamReadRaises(exc) ==
    /\ pc = "streaming"
    /\ LET h == StreamExcept(exc, request_id)
       IN /\ emitted' = emitted \o h.out
          /\ raised' = h.raised
    /\ failure' = exc
    /\ pc' = "ended"
    /\ UNCHANGED <<request_id, posts, received, unread, stream_response>>
    /\ UNCHANGED <<streamLocalVars, sendVars, pipeVars, buildVars, callVars, wpVars>>

\* response.content is exhausted: the loop ends without message_stop
StreamEOF ==
    /\ pc = "streaming"
    /\ pc' = "ended"
    /\ UNCHANGED <<request_id, posts, received, unread, failure,
                   stream_response, emitted, raised>>
    /\ UNCHANGED <<streamLocalVars, sendVars, pipeVars, buildVars, callVars, wpVars>>

\* the loop was left by break or by an exception of the loop body while
\* the vendor still had lines to send: they are never read
LoopLeft ==
    /\ pc = "ended"
    /\ received # <<>>
    /\ \/ received[Len(received)].type = "message_stop"
       \/ failure \in {"KeyError", "UnicodeDecodeError"}

VendorLineUnread(line) ==
    /\ LoopLeft
    /\ Len(received) + Len(unread) < MaxLines
    /\ unread' = Append(unread, line)
    /\ UNCHANGED <<pc, request_id, posts, received, failure, stream_response,
                   emitted, raised>>
    /\ UNCHANGED <<streamLocalVars, sendVars, pipeVars, buildVars, callVars, wpVars>>

-----------------------------------------------------------------------------
(* _send_request                                                           *)

max_retries == 3

base_delay == 1

\* values of the retry-after header of a 429 response: absent, a number of
\* seconds, an HTTP date
RetryAfterValues == {None, "2", "Wed, 21 Oct 2015 07:28:00 GMT"}

\* int(s) succeeds on a string
IsIntLiteral(s) == s \in {"0", "2"}

\* int(s)
IntOf(s) == CASE s = "0" -> 0 [] s = "2" -> 2

\* response.headers.get("retry-after", base_delay * (2**retry_count))
RetryAfterHeader(hdr, count) ==
    IF hdr = None THEN base_delay * (2 ^ count) ELSE IntOf(hdr)

\* the value _send_request builds from a response, and the synthetic one
ResponseWrapper(status, text) == [status_code |-> status, text |-> text]

NoResponse == ResponseWrapper(0, None)

\* the handlers of pipe, lines 485-497: inner tells whether the exception
\* was raised inside the inner try (lines 469-483)
PipeExcept(exc, inner, rid) ==
    IF inner /\ CaughtAsClientError(exc)
    THEN [result |-> ErrorDict("Request failed", 0, exc, rid), raised |-> None]
    ELSE IF CaughtAsException(exc)
    THEN [result |-> ErrorDict("Error", 0, exc, rid), raised |-> None]
    ELSE [result |-> NoResult, raised |-> exc]

streamVars == <<current_tool_use, tool_use_input_json, tool_call_index,
                has_tool_calls, emitted, received, unread, stream_response>>

\* session.post raises: a ClientError is re-raised at line 895, anything
\* else is not caught in _send_request; both reach the handlers of pipe
SendPostRaises(exc) ==
    /\ pc = "send"
    /\ retry_count < max_retries
    /\ posts' = posts + 1
    /\ attempts' = Append(attempts, [status |-> 0, retry_after |-> None, exc |-> exc])
    /\ LET h == PipeExcept(exc, TRUE, request_id)
       IN /\ result' = h.result
          /\ raised' = h.raised
    /\ failure' = exc
    /\ pc' = "returned"
    /\ UNCHANGED <<ANTHROPIC_API_KEY, request_id, validated, processed>>
    /\ UNCHANGED <<buildVars, callVars, wpVars, streamVars, retry_count, sleeps, response>>

\* the POST is answered with HTTP 429, lines 868-881
SendPost429(hdr, rid) ==
    /\ pc = "send"
    /\ retry_count < max_retries
    /\ posts' = posts + 1
    /\ request_id' = rid
    /\ attempts' = Append(attempts, [status |-> 429, retry_after |-> hdr, exc |-> None])
    /\ IF hdr # None /\ ~IsIntLiteral(hdr)
       THEN LET h == PipeExcept("ValueError", TRUE, rid)
            IN /\ result' = h.result
               /\ raised' = h.raised
               /\ failure' = "ValueError"
               /\ pc' = "returned"
               /\ UNCHANGED <<sleeps, retry_count>>
       ELSE /\ sleeps' = Append(sleeps, RetryAfterHeader(hdr, retry_count))
            /\ retry_count' = retry_count + 1
            /\ pc' = "send"
            /\ UNCHANGED <<result, raised, failure>>
    /\ UNCHANGED <<ANTHROPIC_API_KEY, validated, processed, response>>
    /\ UNCHANGED <<streamVars, buildVars, callVars, wpVars>>

\* SendPostOther that treats a 500 like a 429: sleeps and tries again
SendPostOther_Retries500(status, rid, exc) ==
    /\ pc = "send"
    /\ retry_count < max_retries
    /\ status # 429
    /\ posts' = posts + 1
    /\ request_id' = rid
    /\ attempts' = Append(attempts, [status |-> status, retry_after |-> None, exc |-> exc])
    /\ IF exc = None /\ status = 500
       THEN /\ sleeps' = Append(sleeps, RetryAfterHeader(None, retry_count))
            /\ retry_count' = retry_count + 1
            /\ pc' = "send"
            /\ UNCHANGED <<result, raised, failure, response>>
       ELSE IF exc = None
       THEN /\ response' = ResponseWrapper(status, "body")
            /\ pc' = "handle"
            /\ UNCHANGED <<result, raised, failure, retry_count, sleeps>>
       ELSE LET h == PipeExcept(exc, TRUE, rid)
            IN /\ result' = h.result
               /\ raised' = h.raised
               /\ failure' = exc
               /\ pc' = "returned"
               /\ UNCHANGED <<response, retry_count, sleeps>>
    /\ UNCHANGED <<ANTHROPIC_API_KEY, validated, processed>>
    /\ UNCHANGED <<streamVars, buildVars, callVars, wpVars>>

\* the POST is answered with another status, lines 868-891; exc is the
\* exception of "await response.text()", None when the body is read
SendPostOther(status, rid, exc) ==
    /\ pc = "send"
    /\ retry_count < max_retries
    /\ status # 429
    /\ posts' = posts + 1
    /\ request_id' = rid
    /\ attempts' = Append(attempts, [status |-> status, retry_after |-> None, exc |-> exc])
    /\ IF exc = None
       THEN /\ response' = ResponseWrapper(status, "body")
            /\ pc' = "handle"
            /\ UNCHANGED <<result, raised, failure>>
       ELSE LET h == PipeExcept(exc, TRUE, rid)
            IN /\ result' = h.result
               /\ raised' = h.raised
               /\ failure' = exc
               /\ pc' = "returned"
               /\ UNCHANGED response
    /\ UNCHANGED <<ANTHROPIC_API_KEY, validated, processed, retry_count, sleeps>>
    /\ UNCHANGED <<streamVars, buildVars, callVars, wpVars>>

\* the while loop ends, lines 897-903
SendExhausted ==
    /\ pc = "send"
    /\ ~(retry_count < max_retries)
    /\ response' = ResponseWrapper(429, "Max retries exceeded")
    /\ pc' = "handle"
    /\ UNCHANGED <<ANTHROPIC_API_KEY, request_id, result, raised, failure,
                   validated, processed, posts, retry_count, sleeps, attempts>>
    /\ UNCHANGED <<streamVars, buildVars, callVars, wpVars>>

-----------------------------------------------------------------------------
(* pipe                                                                    *)

\* PipeNoKey with the key test placed after the image validation
PipeNoKey_AfterValidation ==
    /\ pc = "start"
    /\ ANTHROPIC_API_KEY = ""
    /\ validated' = validated + 1
    /\ result' = ErrorDict("Error: ANTHROPIC_API_KEY is required", 0, None, None)
    /\ pc' = "returned"
    /\ UNCHANGED <<ANTHROPIC_API_KEY, request_id, raised, failure, processed, posts>>
    /\ UNCHANGED <<buildVars, callVars, wpVars, streamVars, sendVars>>

\* lines 327-328
PipeNoKey ==
    /\ pc = "start"
    /\ ANTHROPIC_API_KEY = ""
    /\ result' = ErrorDict("Error: ANTHROPIC_API_KEY is required", 0, None, None)
    /\ pc' = "returned"
    /\ UNCHANGED <<ANTHROPIC_API_KEY, request_id, raised, failure, validated,
                   processed, posts>>
    /\ UNCHANGED <<buildVars, callVars, wpVars, streamVars, sendVars>>

\* lines 330-467 when a step raises: body["messages"] (KeyError, before
\* validation), validate_total_image_size (ValueError) or _process_messages
\* (ValueError of process_image)
PipeBuildRaises(at) ==
    /\ pc = "start"
    /\ ANTHROPIC_API_KEY # ""
    /\ validated' = IF at = "messages" THEN validated ELSE validated + 1
    /\ processed' = IF at = "process" THEN processed + 1 ELSE processed
    /\ LET exc == IF at = "messages" THEN "KeyError" ELSE "ValueError"
           h == PipeExcept(exc, FALSE, request_id)
       IN /\ result' = h.result
          /\ raised' = h.raised
          /\ failure' = exc
    /\ pc' = "returned"
    /\ UNCHANGED <<ANTHROPIC_API_KEY, request_id, posts>>
    /\ UNCHANGED <<buildVars, callVars, wpVars, streamVars, sendVars>>

\* lines 330-473: the payload is built; a streaming request returns the
\* generator, another one enters _send_request
PipeBuild(stream) ==
    /\ pc = "start"
    /\ ANTHROPIC_API_KEY # ""
    /\ validated' = validated + 1
    /\ processed' = processed + 1
    /\ IF stream
       THEN /\ result' = Generator
            /\ pc' = "stream"
       ELSE /\ result' = result
            /\ pc' = "send"
    /\ UNCHANGED <<ANTHROPIC_API_KEY, request_id, raised, failure, posts>>
    /\ UNCHANGED <<buildVars, callVars, wpVars, streamVars, sendVars>>

\* lines 474-483, after _send_request returned; exc is the exception of
\* _handle_response or of result["content"][0]["text"], None when none
PipeHandle(exc) ==
    /\ pc = "handle"
    /\ IF response.status_code # 200
       THEN /\ exc = None
            /\ result' = ErrorDict("Error: HTTP", response.status_code,
                                   response.text, None)
            /\ UNCHANGED <<raised, failure>>
       ELSE IF exc = None
       THEN /\ result' = ResponseText
            /\ UNCHANGED <<raised, failure>>
       ELSE LET h == PipeExcept(exc, TRUE, request_id)
            IN /\ result' = h.result
               /\ raised' = h.raised
               /\ failure' = exc
    /\ pc' = "returned"
    /\ UNCHANGED <<ANTHROPIC_API_KEY, request_id, validated, processed, posts>>
    /\ UNCHANGED <<buildVars, callVars, wpVars, streamVars, sendVars>>

-----------------------------------------------------------------------------
(* The request builder of pipe, lines 330-467, as functions of the request. *)
(* A content item of a request keeps what the builder reads of it: its     *)
(* type, its text, its URL as scheme, media type and length of the base64  *)
(* data after the comma, its cache_control and its file_id.                *)

SUPPORTED_IMAGE_TYPES == {"image/jpeg", "image/png", "image/gif", "image/webp"}

MAX_IMAGE_SIZE == 5 * 1024 * 1024

MAX_PDF_SIZE == 32 * 1024 * 1024

TOTAL_MAX_IMAGE_SIZE == 100 * 1024 * 1024

MAX_IMAGES_PER_REQUEST == 100

PDF_HEADER == "pdfs-2024-09-25"

PROMPT_CACHE_HEADER == "prompt-caching-2024-07-31"

OUTPUT128K_HEADER == "output-128k-2025-02-19"

EXTENDED_CACHE_HEADER == "extended-cache-ttl-2025-04-11"

INTERLEAVED_THINKING_HEADER == "interleaved-thinking-2025-05-14"

FILES_API_HEADER == "files-api-2025-04-14"

\* "".join(strs), by halves
RECURSIVE ConcatRange(_, _, _)
ConcatRange(strs, lo, hi) ==
    IF lo > hi THEN ""
    ELSE IF lo = hi THEN strs[lo]
    ELSE LET mid == (lo + hi) \div 2
         IN ConcatRange(strs, lo, mid) \o ConcatRange(strs, mid + 1, hi)

Concat(strs) == ConcatRange(strs, 1, Len(strs))

\* sum(nums), by halves
RECURSIVE SumRange(_, _, _)
SumRange(nums, lo, hi) ==
    IF lo > hi THEN 0
    ELSE IF lo = hi THEN nums[lo]
    ELSE LET mid == (lo + hi) \div 2
         IN SumRange(nums, lo, mid) + SumRange(nums, mid + 1, hi)

Sum(nums) == SumRange(nums, 1, Len(nums))

\* an exception with str(e)
Raise(exc, msg) == [exc |-> exc, msg |-> msg]

NoException == Raise(None, None)

\* a URL: "data:<media_type>;base64,<length characters>" or an https URL
DataUrl(media_type, length) ==
    [scheme |-> "data", media_type |-> media_type, length |-> length]

HttpsUrl == [scheme |-> "https", media_type |-> None, length |-> 0]

\* url.startswith("data:image")
StartsWithDataImage(url) ==
    /\ url.scheme = "data"
    /\ url.media_type \in SUPPORTED_IMAGE_TYPES \cup {"image/bmp", "image/tiff"}

\* url.startswith("data:application/pdf")
StartsWithDataPdf(url) ==
    /\ url.scheme = "data"
    /\ url.media_type = "application/pdf"

\* cache_control of an item: absent, {"type": "ephemeral"} or with a ttl
CacheControl(ttl) == [type |-> "ephemeral", ttl |-> ttl]

NoCacheControl == [type |-> None, ttl |-> None]

Item(type, text, url, cache_control, file_id) ==
    [type |-> type, text |-> text, url |-> url,
     cache_control |-> cache_control, file_id |-> file_id]

\* len(base64_data) * 3 / 4, kept exact as four times its value
SizeTimes4(length) == length * 3

\* f"{size/(1024*1024):.2f}" of a size given as four times its value: the
\* hundredths of a megabyte, rounded to nearest with ties to even
RoundHalfEven(q, r, unit) ==
    IF 2 * r > unit \/ (2 * r = unit /\ q % 2 = 1) THEN q + 1 ELSE q

Scaled(size4, unit) == (size4 % unit) * 100

Hundredths(size4, unit) ==
    (size4 \div unit) * 100
    + RoundHalfEven(Scaled(size4, unit) \div unit, Scaled(size4, unit) % unit,
                    unit)

TwoDecimals(h) ==
    ToString(h \div 100) \o "." \o ToString((h % 100) \div 10)
    \o ToString(h % 10)

Format2f(size4) == TwoDecimals(Hundredths(size4, 4 * 1024 * 1024))

\* process_image without the size test of lines 198-202
process_image_NoSizeCheck(image_data) ==
    IF StartsWithDataImage(image_data.url)
    THEN IF image_data.url.media_type \notin SUPPORTED_IMAGE_TYPES
         THEN [block |-> <<>>,
               exc |-> Raise("ValueError",
                             "Unsupported media type: "
                             \o image_data.url.media_type)]
         ELSE [block |-> <<[type |-> "image",
                            source |-> [type |-> "base64",
                                        media_type |-> image_data.url.media_type,
                                        length |-> image_data.url.length]]>>,
               exc |-> NoException]
    ELSE [block |-> <<[type |-> "image",
                       source |-> [type |-> "url", url |-> image_data.url]]>>,
          exc |-> NoException]

\* lines 189-216; the block, or the ValueError of lines 195 and 200
process_image(image_data) ==
    IF StartsWithDataImage(image_data.url)
    THEN IF image_data.url.media_type \notin SUPPORTED_IMAGE_TYPES
         THEN [block |-> <<>>,
               exc |-> Raise("ValueError",
                             "Unsupported media type: "
                             \o image_data.url.media_type)]
         ELSE IF SizeTimes4(image_data.url.length) > 4 * MAX_IMAGE_SIZE
         THEN [block |-> <<>>,
               exc |-> Raise("ValueError",
                             "Image size exceeds 5.0MB limit: "
                             \o Format2f(SizeTimes4(image_data.url.length))
                             \o "MB")]
         ELSE [block |-> <<[type |-> "image",
                            source |-> [type |-> "base64",
                                        media_type |-> image_data.url.media_type,
                                        length |-> image_data.url.length]]>>,
               exc |-> NoException]
    ELSE [block |-> <<[type |-> "image",
                       source |-> [type |-> "url", url |-> image_data.url]]>>,
          exc |-> NoException]

\* lines 218-256
process_pdf(pdf_data) ==
    IF /\ StartsWithDataPdf(pdf_data.url)
       /\ SizeTimes4(pdf_data.url.length) > 4 * MAX_PDF_SIZE
    THEN [block |-> <<>>,
          exc |-> Raise("ValueError",
                        "PDF size exceeds 32.0MB limit: "
                        \o Format2f(SizeTimes4(pdf_data.url.length)) \o "MB")]
    ELSE [block |-> <<[type |-> "document",
                       source |-> IF StartsWithDataPdf(pdf_data.url)
                                  THEN [type |-> "base64",
                                        media_type |-> "application/pdf",
                                        length |-> pdf_data.url.length]
                                  ELSE [type |-> "url", url |-> pdf_data.url],
                       cache_control |-> pdf_data.cache_control]>>,
          exc |-> NoException]

\* lines 277-284: no block without a file_id
process_file_reference(file_data) ==
    IF file_data.file_id # None
    THEN <<[type |-> "document",
            source |-> [type |-> "file", file_id |-> file_data.file_id]]>>
    ELSE <<>>

\* lines 258-275: the source of the item under type "document"
process_document(doc_data) ==
    <<[type |-> "document", source |-> doc_data.url]>>

\* one iteration of the loop of lines 170-186
ProcessItem(item) ==
    IF item.type = "text"
    THEN [block |-> <<[type |-> "text", text |-> item.text]>>,
          exc |-> NoException]
    ELSE IF item.type = "image_url" THEN process_image(item)
    ELSE IF item.type = "pdf_url" THEN process_pdf(item)
    ELSE IF item.type = "document"
    THEN [block |-> process_document(item), exc |-> NoException]
    ELSE IF item.type = "file_reference"
    THEN [block |-> process_file_reference(item), exc |-> NoException]
    ELSE IF item.type \in {"tool_calls", "tool_results"}
    THEN [block |-> <<item>>, exc |-> NoException]
    ELSE [block |-> <<>>, exc |-> NoException]

\* lines 165-187 on a list: the blocks of the items in order, or the
\* exception of the first item that raises
Raising(results) == {i \in DOMAIN results : results[i].exc # NoException}

Appended(results) == SelectSeq(results, LAMBDA r : r.block # <<>>)

Blocks(appended) == [i \in DOMAIN appended |-> appended[i].block[1]]

ContentOf(results) ==
    IF Raising(results) # {}
    THEN [processed_content |-> <<>>,
          exc |-> results[CHOOSE i \in Raising(results) :
                              \A j \in Raising(results) : i <= j].exc]
    ELSE [processed_content |-> Blocks(Appended(results)),
          exc |-> NoException]

process_content(content) ==
    ContentOf([i \in DOMAIN content |-> ProcessItem(content[i])])

\* content of a message: a string, a list of items, or null
Str(text) == [kind |-> "str", text |-> text, items |-> <<>>]

List(items) == [kind |-> "list", text |-> "", items |-> items]

NoContent == [kind |-> "none", text |-> "", items |-> <<>>]

\* a message of the request; tool_calls is empty when the key is absent
Message(role, content, tool_calls, tool_call_id) ==
    [role |-> role, content |-> content, tool_calls |-> tool_calls,
     tool_call_id |-> tool_call_id]

\* an OpenAI tool call of an assistant message
ToolCall(id, name, arguments) ==
    [id |-> id, function |-> [name |-> name, arguments |-> arguments]]

\* bool(content) of Python
Truthy(content) ==
    \/ content.kind = "str" /\ content.text # ""
    \/ content.kind = "list" /\ content.items # <<>>

\* lines 300-324: total_size (times four) and image_count after the loops
IsDataImage(item) == item.type = "image_url" /\ StartsWithDataImage(item.url)

ItemsTotal(items) ==
    [total_size |-> Sum([i \in DOMAIN items |->
                            IF IsDataImage(items[i])
                            THEN SizeTimes4(items[i].url.length) ELSE 0]),
     image_count |-> Cardinality({i \in DOMAIN items : IsDataImage(items[i])})]

MessageTotal(message) ==
    IF message.content.kind = "list"
    THEN ItemsTotal(message.content.items)
    ELSE [total_size |-> 0, image_count |-> 0]

MessagesTotal(messages) ==
    [total_size |-> Sum([i \in DOMAIN messages |->
                            MessageTotal(messages[i]).total_size]),
     image_count |-> Sum([i \in DOMAIN messages |->
                             MessageTotal(messages[i]).image_count])]

\* CheckTotals without the count test of lines 319-322
CheckTotals_NoCount(total_size, image_count) ==
    IF total_size > 4 * TOTAL_MAX_IMAGE_SIZE
    THEN Raise("ValueError",
               "Total image size exceeds 100.0MB limit: "
               \o Format2f(total_size) \o "MB")
    ELSE NoException

\* lines 314-324 on the totals
CheckTotals(total_size, image_count) ==
    IF total_size > 4 * TOTAL_MAX_IMAGE_SIZE
    THEN Raise("ValueError",
               "Total image size exceeds 100.0MB limit: "
               \o Format2f(total_size) \o "MB")
    ELSE IF image_count > MAX_IMAGES_PER_REQUEST
    THEN Raise("ValueError",
               "Too many images: " \o ToString(image_count)
               \o ". Maximum is 100.")
    ELSE NoException

\* lines 300-324: the exception raised, NoException when validation passes
validate_total_image_size(messages) ==
    CheckTotals(MessagesTotal(messages).total_size,
                MessagesTotal(messages).image_count)

\* json.dumps of a content that is not a string (line 761)
DumpItems(items) ==
    Concat([i \in DOMAIN items |-> "{" \o items[i].type \o "}"])

JsonDumps(content) ==
    IF content.kind = "none" THEN "null"
    ELSE "[" \o DumpItems(content.items) \o "]"

\* strings that are a JSON string literal, with the string they parse to
\* (lines 699-707), and strings holding an escaped newline, with the text
\* after the replacements of lines 725-729
JsonStringLiterals == [s \in {"\"done\""} |-> "done"]

EscapedTexts == [s \in {"a\\nb"} |-> "a\nb"]

\* lines 674-737
_normalize_tool_result_content(content) ==
    IF content = "" THEN ""
    ELSE IF content \in DOMAIN JsonStringLiterals THEN JsonStringLiterals[content]
    ELSE IF content \in DOMAIN EscapedTexts THEN EscapedTexts[content]
    ELSE content

\* lines 758-769: the tool_result block of a tool-role message
ToolResult(message) ==
    [type |-> "tool_result",
     tool_use_id |-> message.tool_call_id,
     content |-> _normalize_tool_result_content(
                     IF message.content.kind = "str"
                     THEN message.content.text
                     ELSE JsonDumps(message.content))]

\* arguments json.loads accepts (line 803); any other string is kept raw
ValidJsonArguments == {"{}", "{\"q\": 1}"}

\* lines 795-808: the tool_use block of one tool call
ToolUse(tc) ==
    [type |-> "tool_use",
     id |-> tc.id,
     name |-> tc.function.name,
     input |-> IF tc.function.arguments \in ValidJsonArguments
               THEN [json |-> tc.function.arguments]
               ELSE [raw |-> tc.function.arguments]]

ToolUses(tool_calls) ==
    [i \in DOMAIN tool_calls |-> ToolUse(tool_calls[i])]

\* lines 782-815: the content of an assistant message with tool_calls
AssistantContent(message) ==
    (IF ~Truthy(message.content) THEN <<>>
     ELSE IF message.content.kind = "str"
     THEN <<[type |-> "text", text |-> message.content.text]>>
     ELSE SelectSeq(message.content.items, LAMBDA item : item.type = "text"))
    \o ToolUses(message.tool_calls)

\* lines 824-834: cache_control put on the tool_calls and tool_results items
WithCacheControl(role, item) ==
    IF \/ role = "assistant" /\ item.type = "tool_calls"
       \/ role = "user" /\ item.type = "tool_results"
    THEN [item EXCEPT !.cache_control = CacheControl(None)]
    ELSE item

MarkItems(role, items) ==
    [i \in DOMAIN items |-> WithCacheControl(role, items[i])]

MarkContent(role, r) ==
    [processed_content |-> MarkItems(role, r.processed_content), exc |-> r.exc]

\* lines 818-835: processed_content of a regular message
RegularContent(message) ==
    IF message.content.kind = "str"
    THEN [processed_content |->
              IF message.content.text # ""
              THEN <<[type |-> "text", text |-> message.content.text]>>
              ELSE <<>>,
          exc |-> NoException]
    ELSE IF message.content.kind = "list"
    THEN MarkContent(message.role, process_content(message.content.items))
    ELSE [processed_content |-> <<>>, exc |-> NoException]

\* a message of the payload; its content is a list of blocks
OutMessage(role, blocks) == [role |-> role, content |-> List(blocks)]

\* pending tool results emitted as one user message (lines 771-776, 844-848)
Flush(pending_tool_results) ==
    IF pending_tool_results # <<>>
    THEN <<OutMessage("user", pending_tool_results)>>
    ELSE <<>>

\* lines 750-850: the loop over the messages from its two accumulators
\* one iteration of the loop of lines 753-841 on a message: what it
\* appends to processed_messages, the pending tool results it leaves, or
\* the exception it raises
\* AppendTool with "pending_tool_results = [...]" for the append of line
\* 765: a tool result replaces the ones collected before it
AppendTool_KeepsLastOnly(message, pending_tool_results) ==
    [appended |-> <<>>,
     pending_tool_results |-> <<ToolResult(message)>>,
     exc |-> NoException]

AppendTool(message, pending_tool_results) ==
    [appended |-> <<>>,
     pending_tool_results |-> Append(pending_tool_results, ToolResult(message)),
     exc |-> NoException]

AppendToolCalls(message, flushed) ==
    [appended |-> Append(flushed,
                         OutMessage("assistant", AssistantContent(message))),
     pending_tool_results |-> <<>>,
     exc |-> NoException]

\* AppendRegular without "or role == 'assistant'" at line 837
AppendRegular_OmitsEmptyAssistant(role, r, flushed) ==
    [appended |->
         IF r.exc # NoException THEN <<>>
         ELSE IF r.processed_content # <<>>
         THEN Append(flushed, OutMessage(role, r.processed_content))
         ELSE flushed,
     pending_tool_results |-> <<>>,
     exc |-> r.exc]

AppendRegular(role, r, flushed) ==
    [appended |->
         IF r.exc # NoException THEN <<>>
         ELSE IF r.processed_content # <<>>
         THEN Append(flushed, OutMessage(role, r.processed_content))
         ELSE IF role = "assistant"
         THEN Append(flushed,
                     OutMessage(role, <<[type |-> "text", text |-> ""]>>))
         ELSE flushed,
     pending_tool_results |-> <<>>,
     exc |-> r.exc]

Iteration(message, pending_tool_results) ==
    IF message.role = "tool"
    THEN AppendTool(message, pending_tool_results)
    ELSE IF message.role = "assistant" /\ message.tool_calls # <<>>
    THEN AppendToolCalls(message, Flush(pending_tool_results))
    ELSE AppendRegular(message.role, RegularContent(message),
                       Flush(pending_tool_results))

\* lines 750-850: the loop over the messages from its two accumulators
RECURSIVE ProcessLoop(_, _, _)
Continue(messages, processed_messages, step) ==
    IF step.exc # NoException
    THEN [processed_messages |-> <<>>, exc |-> step.exc]
    ELSE ProcessLoop(messages, processed_messages \o step.appended,
                     step.pending_tool_results)

ProcessLoop(messages, processed_messages, pending_tool_results) ==
    IF messages = <<>>
    THEN [processed_messages |-> processed_messages \o Flush(pending_tool_results),
          exc |-> NoException]
    ELSE Continue(Tail(messages), processed_messages,
                  Iteration(Head(messages), pending_tool_results))

_process_messages(messages) == ProcessLoop(messages, <<>>, <<>>)

\* A model identifier is the sequence of its pieces, with "/" and
\* "-thinking" as pieces of their own: "api/claude-3-5-sonnet-latest-thinking"
\* is <<"api", "/", "claude-3-5-sonnet-latest", "-thinking">>.

\* body["model"].split("/")[-1], line 337
RECURSIVE AfterLastSlash(_)
AfterLastSlash(model) ==
    IF \E i \in DOMAIN model : model[i] = "/"
    THEN AfterLastSlash(Tail(model))
    ELSE model

\* "-thinking" in body["model"], line 338
is_thinking_mode(model) == \E i \in DOMAIN model : model[i] = "-thinking"

\* model_name.replace("-thinking", ""), line 341
ReplaceThinking(model_name) ==
    SelectSeq(model_name, LAMBDA piece : piece # "-thinking")

\* lines 337-341
model_name(model) ==
    Concat(IF is_thinking_mode(model)
           THEN ReplaceThinking(AfterLastSlash(model))
           ELSE AfterLastSlash(model))

\* lines 52-68
MODEL_MAX_TOKENS ==
    [name \in {"claude-opus-4-5-20250514", "claude-4-5-opus-20250514",
               "claude-opus-4-20250514", "claude-opus-4-0"} |-> 32000]
    @@ [name \in {"claude-sonnet-4-20250514", "claude-sonnet-4-0"} |-> 64000]
    @@ [name \in {"claude-3-7-sonnet-20250219", "claude-3-7-sonnet-latest"}
            |-> 128000]
    @@ [name \in {"claude-3-5-sonnet-20241022", "claude-3-5-sonnet-20240620",
                  "claude-3-5-sonnet-latest"} |-> 8192]

\* self.MODEL_MAX_TOKENS.get(model_name, 4096), line 343
max_tokens_limit(name) ==
    IF name \in DOMAIN MODEL_MAX_TOKENS THEN MODEL_MAX_TOKENS[name] ELSE 4096

Min(a, b) == IF a < b THEN a ELSE b

\* lines 348-350; max_tokens of the body is <<>> when the key is absent
Get(maxtok, default) == IF maxtok = <<>> THEN default ELSE maxtok[1]

Clamp(maxtok, limit) == Min(Get(maxtok, limit), limit)

\* max_tokens without the min of line 348
max_tokens_NoClamp(b) ==
    Get(b.max_tokens, max_tokens_limit(model_name(b.model)))

max_tokens(b) == Clamp(b.max_tokens, max_tokens_limit(model_name(b.model)))

\* lines 418-430
Output128KModels ==
    {"claude-3-7-sonnet-20250219", "claude-3-7-sonnet-latest",
     "claude-opus-4-5-20250514", "claude-4-5-opus-20250514",
     "claude-opus-4-20250514", "claude-opus-4-0",
     "claude-sonnet-4-20250514", "claude-sonnet-4-0"}

\* the loops of lines 438-439: the items the flags are tested on, those of
\* every list content
ScannedItems(messages) ==
    UNION {{messages[i].content.items[j] :
                j \in DOMAIN messages[i].content.items} :
               i \in {k \in DOMAIN messages : messages[k].content.kind = "list"}}

has_pdf(messages) ==
    \E item \in ScannedItems(messages) : item.type = "pdf_url"

\* has_cache assigned by every item instead of set: the last item decides
has_cache_LastItemDecides(messages) ==
    \E i \in DOMAIN messages :
        /\ messages[i].content.kind = "list"
        /\ messages[i].content.items # <<>>
        /\ \A k \in DOMAIN messages :
               (k > i) => (messages[k].content.kind # "list"
                           \/ messages[k].content.items = <<>>)
        /\ messages[i].content.items[Len(messages[i].content.items)].cache_control
               # NoCacheControl

has_cache(messages) ==
    \E item \in ScannedItems(messages) : item.cache_control # NoCacheControl

has_1h_cache(messages) ==
    \E item \in ScannedItems(messages) :
        /\ item.cache_control # NoCacheControl
        /\ item.cache_control.ttl = "1h"

has_files(messages) ==
    \E item \in ScannedItems(messages) : item.type = "file_reference"

\* lines 415-463
beta_headers(b) ==
    (IF model_name(b.model) \in Output128KModels
     THEN <<OUTPUT128K_HEADER>> ELSE <<>>)
    \o (IF has_pdf(b.messages) THEN <<PDF_HEADER>> ELSE <<>>)
    \o (IF has_cache(b.messages) THEN <<PROMPT_CACHE_HEADER>> ELSE <<>>)
    \o (IF has_1h_cache(b.messages) THEN <<EXTENDED_CACHE_HEADER>> ELSE <<>>)
    \o (IF has_files(b.messages) THEN <<FILES_API_HEADER>> ELSE <<>>)
    \o (IF is_thinking_mode(b.model) /\ b.interleaved_thinking
        THEN <<INTERLEAVED_THINKING_HEADER>> ELSE <<>>)

\* lines 409-467: anthropic-beta is a key of the headers only when a flag
\* applies; its value is kept as the list that is joined with ","
HeadersWith(flags) ==
    [has_anthropic_beta |-> flags # <<>>, anthropic_beta |-> flags]

Headers(b) == HeadersWith(beta_headers(b))

NoHeaders == [has_anthropic_beta |-> FALSE, anthropic_beta |-> <<>>]

\* lines 345-407: thinking is <<>> when the payload has no thinking key
Payload(model, messages, maxtok, stream, thinking) ==
    [model |-> model, messages |-> messages, max_tokens |-> maxtok,
     stream |-> stream, thinking |-> thinking]

NoPayload == Payload(None, <<>>, 0, FALSE, <<>>)

\* a request without payload or headers yet
NoBody == [model |-> <<>>, max_tokens |-> <<>>, stream |-> FALSE,
           interleaved_thinking |-> FALSE, messages |-> <<>>]

\* lines 330-467: the exception that ends the builder, or the payload and
\* the headers.  The messages are those left by pop_system_message.
Built(b, budget_tokens, invalid, processing) ==
    IF invalid # NoException
    THEN [exc |-> invalid, at |-> "validate",
          payload |-> NoPayload, headers |-> NoHeaders]
    ELSE IF processing.exc # NoException
    THEN [exc |-> processing.exc, at |-> "process",
          payload |-> NoPayload, headers |-> NoHeaders]
    ELSE [exc |-> NoException, at |-> None,
          payload |-> Payload(model_name(b.model),
                              processing.processed_messages,
                              max_tokens(b),
                              b.stream,
                              IF is_thinking_mode(b.model)
                              THEN <<[type |-> "enabled",
                                      budget_tokens |-> budget_tokens]>>
                              ELSE <<>>),
          headers |-> Headers(b)]

BuildRequest(b, budget_tokens) ==
    Built(b, budget_tokens, validate_total_image_size(b.messages),
          _process_messages(b.messages))

\* lines 326-473 and 492-497 on the request body: the error value of the
\* handler of line 492, the generator of a streaming request, or the entry
\* into _send_request
PipeRequest ==
    /\ pc = "start"
    /\ ANTHROPIC_API_KEY # ""
    /\ \E built \in {BuildRequest(body, THINKING_BUDGET_TOKENS)} :
          /\ validated' = validated + 1
          /\ processed' = IF built.at = "validate" THEN processed
                          ELSE processed + 1
          /\ IF built.exc # NoException
             THEN /\ CaughtAsException(built.exc.exc)
                  /\ result' = ErrorDict("Error", 0, built.exc.msg, request_id)
                  /\ failure' = built.exc.exc
                  /\ pc' = "returned"
                  /\ UNCHANGED <<payload, headers>>
             ELSE /\ payload' = built.payload
                  /\ headers' = built.headers
                  /\ failure' = failure
                  /\ IF built.payload.stream
                     THEN /\ result' = Generator
                          /\ pc' = "stream"
                     ELSE /\ result' = result
                          /\ pc' = "send"
    /\ UNCHANGED <<ANTHROPIC_API_KEY, request_id, raised, posts,
                   THINKING_BUDGET_TOKENS, body>>
    /\ UNCHANGED <<streamVars, sendVars, callVars, wpVars>>

-----------------------------------------------------------------------------
(* Several invocations of pipe on one Pipe instance.  The locals of        *)
(* _stream_with_ui and _send_request belong to the invocation; the         *)
(* attribute self.request_id belongs to the instance.  An invocation       *)
(* gives way to the others where it awaits: session.post, response.text(), *)
(* each read of response.content and asyncio.sleep.  The awaits that leave *)
(* the "async with" blocks are taken not to give way.                      *)

Invocations == {1, 2}

\* an invocation: its position, the locals of _stream_with_ui (st, and the
\* items yielded and lines read so far), the locals of _send_request, the
\* status of the response in hand, the exception an await raised and
\* where, the value pipe returned and the x-request-id headers received
Call(pos, st, out, lines, count, slept, tried, status, exc, at, value, ids) ==
    [pc |-> pos, st |-> st, emitted |-> out, received |-> lines,
     retry_count |-> count, sleeps |-> slept, attempts |-> tried,
     status |-> status, failure |-> exc, failed_at |-> at,
     result |-> value, seen |-> ids]

NewCall ==
    Call("start", InitialLocals, <<>>, <<>>, 0, <<>>, <<>>, 0, None, None,
         NoResult, {})

InitCalls == calls = [i \in Invocations |-> NewCall]

\* the x-request-id header of a response to invocation i: absent, or the
\* id the vendor gave the request
CallRequestIds(i) == {None, "req_" \o ToString(i)}

\* the locals of _stream_with_ui read by invocation i, but kept on the
\* instance: every invocation reads those of the first one
CallLocals_OnInstance(cs, i) == cs[1].st

\* the locals of _stream_with_ui read by invocation i, lines 526-530
CallLocals(cs, i) == cs[i].st

\* the retry counter of _send_request read by invocation i, line 858
CallRetryCount(cs, i) == cs[i].retry_count

\* invocation i moves to c; the other invocations stay as they are
SetCall(i, c) == calls' = [calls EXCEPT ![i] = c]

soloVars == <<pc, ANTHROPIC_API_KEY, result, raised, validated, processed,
              posts, failure, streamVars, sendVars, buildVars>>

\* pipe, lines 326-497, up to its first await: a request that fails the
\* validation returns the error of line 492, a streaming one returns the
\* generator, another one enters _send_request
CallPipe(i, kind) ==
    /\ calls[i].pc = "start"
    /\ ANTHROPIC_API_KEY # ""
    /\ SetCall(i, [calls[i] EXCEPT
           !.pc = CASE kind = "invalid" -> "returned"
                    [] kind = "stream" -> "stream"
                    [] kind = "send" -> "send",
           !.result = CASE kind = "invalid" ->
                             PipeExcept("ValueError", FALSE, request_id).result
                        [] kind = "stream" -> Generator
                        [] kind = "send" -> NoResult,
           !.failure = IF kind = "invalid" THEN "ValueError" ELSE None,
           !.failed_at = IF kind = "invalid" THEN "validate" ELSE None])
    /\ UNCHANGED <<request_id, soloVars, wpVars>>

\* _stream_with_ui: session.post raises
CallStreamPostRaises(i, exc) ==
    /\ calls[i].pc = "stream"
    /\ SetCall(i, [calls[i] EXCEPT
           !.pc = "ended",
           !.emitted = @ \o StreamExcept(exc, request_id).out,
           !.failure = exc,
           !.failed_at = "post"])
    /\ UNCHANGED <<request_id, soloVars, wpVars>>

\* _stream_with_ui: the POST is answered, lines 533-540; a status other
\* than 200 is followed by "await response.text()"
CallStreamPost(i, status, rid) ==
    /\ calls[i].pc = "stream"
    /\ request_id' = rid
    /\ SetCall(i, [calls[i] EXCEPT
           !.pc = IF status = 200 THEN "streaming" ELSE "text",
           !.status = status,
           !.seen = @ \cup ({rid} \ {None})])
    /\ UNCHANGED <<soloVars, wpVars>>

\* _stream_with_ui: response.text() returned or raised, lines 541-547
CallStreamText(i, exc) ==
    /\ calls[i].pc = "text"
    /\ SetCall(i, [calls[i] EXCEPT
           !.pc = "ended",
           !.emitted = @ \o
               (IF exc = None
                THEN <<ErrorText("Error: HTTP", calls[i].status, "overloaded",
                                 request_id)>>
                ELSE StreamExcept(exc, request_id).out),
           !.failure = exc,
           !.failed_at = IF exc = None THEN None ELSE "text"])
    /\ UNCHANGED <<request_id, soloVars, wpVars>>

\* Longest upstream body (in lines) one of several invocations reads.
MaxCallLines == 2

\* the lines sent to concurrent invocations
CallLines ==
    { Line("notype", "", "", ""),
      Event("content_block_start", "tool_use", "toolu_1"),
      Event("content_block_delta", "input_json_delta", "{"),
      Event("content_block_stop", "", ""),
      Event("message_stop", "", "") }

\* invocation i after the loop body of lines 550-661 handled a line: r is
\* the outcome of the pass and rid the value of self.request_id
AfterLine(c, line, r, rid) ==
    [c EXCEPT
        !.received = Append(@, line),
        !.st = r.st,
        !.emitted = IF r.exc # None
                    THEN @ \o r.out \o StreamExcept(r.exc, rid).out
                    ELSE @ \o r.out,
        !.failure = IF r.exc # None THEN r.exc ELSE @,
        !.failed_at = IF r.exc # None THEN "line" ELSE @,
        !.pc = IF r.exc # None \/ r.brk THEN "ended" ELSE "streaming"]

\* _stream_with_ui: one line of response.content is read and handled
CallStreamLine(i, line) ==
    /\ calls[i].pc = "streaming"
    /\ Len(calls[i].received) < MaxCallLines
    /\ SetCall(i, AfterLine(calls[i], line,
                            HandleLine(CallLocals(calls, i), line), request_id))
    /\ UNCHANGED <<request_id, soloVars, wpVars>>

\* _stream_with_ui: reading response.content raises
CallStreamReadRaises(i, exc) ==
    /\ calls[i].pc = "streaming"
    /\ SetCall(i, [calls[i] EXCEPT
           !.pc = "ended",
           !.emitted = @ \o StreamExcept(exc, request_id).out,
           !.failure = exc,
           !.failed_at = "read"])
    /\ UNCHANGED <<request_id, soloVars, wpVars>>

\* _stream_with_ui: response.content is exhausted
CallStreamEOF(i) ==
    /\ calls[i].pc = "streaming"
    /\ SetCall(i, [calls[i] EXCEPT !.pc = "ended"])
    /\ UNCHANGED <<request_id, soloVars, wpVars>>

Attempt(status, hdr, exc) == [status |-> status, retry_after |-> hdr, exc |-> exc]

\* _send_request: session.post raises; the exception reaches the handlers
\* of pipe
CallSendPostRaises(i, exc) ==
    /\ calls[i].pc = "send"
    /\ CallRetryCount(calls, i) < max_retries
    /\ SetCall(i, [calls[i] EXCEPT
           !.pc = "returned",
           !.attempts = Append(@, Attempt(0, None, exc)),
           !.result = PipeExcept(exc, TRUE, request_id).result,
           !.failure = exc,
           !.failed_at = "post"])
    /\ UNCHANGED <<request_id, soloVars, wpVars>>

\* invocation i after a 429 answer, lines 870-881: int() of an HTTP date
\* raises, otherwise the call sleeps and tries again
AfterRateLimit(c, hdr, count, rid) ==
    IF hdr # None /\ ~IsIntLiteral(hdr)
    THEN [c EXCEPT
             !.pc = "returned",
             !.attempts = Append(@, Attempt(429, hdr, None)),
             !.result = PipeExcept("ValueError", TRUE, rid).result,
             !.failure = "ValueError",
             !.failed_at = "retry-after",
             !.seen = @ \cup ({rid} \ {None})]
    ELSE [c EXCEPT
             !.attempts = Append(@, Attempt(429, hdr, None)),
             !.sleeps = Append(@, RetryAfterHeader(hdr, count)),
             !.retry_count = count + 1,
             !.seen = @ \cup ({rid} \ {None})]

\* _send_request: the POST is answered with HTTP 429
CallSendPost429(i, hdr, rid) ==
    /\ calls[i].pc = "send"
    /\ CallRetryCount(calls, i) < max_retries
    /\ request_id' = rid
    /\ SetCall(i, AfterRateLimit(calls[i], hdr, CallRetryCount(calls, i), rid))
    /\ UNCHANGED <<soloVars, wpVars>>

\* _send_request: the POST is answered with another status, which is
\* followed by "await response.text()", line 883
CallSendPostOther(i, status, rid) ==
    /\ calls[i].pc = "send"
    /\ CallRetryCount(calls, i) < max_retries
    /\ status # 429
    /\ request_id' = rid
    /\ SetCall(i, [calls[i] EXCEPT
           !.pc = "body",
           !.status = status,
           !.attempts = Append(@, Attempt(status, None, None)),
           !.seen = @ \cup ({rid} \ {None})])
    /\ UNCHANGED <<soloVars, wpVars>>

\* the value pipe returns after response.text(), lines 474-497: exc is the
\* exception of response.text(), of _handle_response or of
\* result["content"][0]["text"], None when none
ReturnedAfterBody(status, exc, rid) ==
    IF exc # None
    THEN PipeExcept(exc, TRUE, rid).result
    ELSE IF status # 200
    THEN ErrorDict("Error: HTTP", status, "body", None)
    ELSE ResponseText

\* _send_request and pipe: response.text() returned or raised, and pipe
\* returns
CallSendBody(i, exc) ==
    /\ calls[i].pc = "body"
    /\ exc = "KeyError" => calls[i].status = 200
    /\ SetCall(i, [calls[i] EXCEPT
           !.pc = "returned",
           !.attempts = [@ EXCEPT ![Len(@)].exc = exc],
           !.result = ReturnedAfterBody(calls[i].status, exc, request_id),
           !.failure = exc,
           !.failed_at = IF exc = None THEN None ELSE "body"])
    /\ UNCHANGED <<request_id, soloVars, wpVars>>

\* _send_request: the while loop ends, lines 897-903, and pipe returns the
\* error of lines 475-479
CallSendExhausted(i) ==
    /\ calls[i].pc = "send"
    /\ ~(CallRetryCount(calls, i) < max_retries)
    /\ SetCall(i, [calls[i] EXCEPT
           !.pc = "returned",
           !.status = 429,
           !.result = ErrorDict("Error: HTTP", 429, "Max retries exceeded", None)])
    /\ UNCHANGED <<request_id, soloVars, wpVars>>

-----------------------------------------------------------------------------
(* The WordPress tools: Tools._resolve_credentials and Tools._make_request *)
(* of src/wordpress_cms_tool.py, and set_wordpress_credentials,            *)
(* clear_wordpress_credentials and get_cached_credentials of               *)
(* src/wordpress_credential_manager.py.  A string is the sequence of its   *)
(* pieces: whitespace characters, the character U+0000 and runs of other   *)
(* characters; the empty string is <<>>.                                   *)

Whitespace == {" ", "\n", "\t"}

NUL == "\\x00"

\* clean_credential: ''.join(value.split()), "" for a falsy value
clean_credential(value) == SelectSeq(value, LAMBDA ch : ch \notin Whitespace)

\* os.environ.get(name, '')
EnvironGet(env, name) == IF name \in DOMAIN env THEN env[name] ELSE <<>>

\* os.environ[name] = value raises ValueError (embedded null byte)
PutenvRaises(value) == \E k \in DOMAIN value : value[k] = NUL

\* os.environ[name] = value
EnvironSet(env, name, value) ==
    [n \in DOMAIN env \cup {name} |-> IF n = name THEN value ELSE env[n]]

\* os.environ.pop(name, None)
EnvironPop(env, name) == [n \in DOMAIN env \ {name} |-> env[n]]

\* Tools.Valves of both tools: WP_ACCESS_TOKEN and WP_SITE_ID
Valves(token, site) == [WP_ACCESS_TOKEN |-> token, WP_SITE_ID |-> site]

\* _credential_cache
CredentialCache(token, site, username) ==
    [access_token |-> token, site_id |-> site, username |-> username]

\* a call of a tool: its name, its arguments, the credentials it resolved
\* and what it returned
WpCall(op, access_token, site_id, username, token, site, returned) ==
    [op |-> op, access_token |-> access_token, site_id |-> site_id,
     username |-> username, token |-> token, site |-> site,
     returned |-> returned]

NoWpCall == WpCall(None, <<>>, <<>>, <<>>, <<>>, <<>>, None)

InitWordPress ==
    /\ cms_valves = Valves(<<>>, <<>>)
    /\ _runtime_token = <<>>
    /\ _runtime_site_id = <<>>
    /\ manager_valves = Valves(<<>>, <<>>)
    /\ _credential_cache = CredentialCache(<<>>, <<>>, <<>>)
    /\ environ = <<>>
    /\ wp_call = NoWpCall

\* priorities 1 to 3 of _resolve_credentials, lines 110-126, for one
\* credential: the Valves setting, the environment variable, the runtime
\* cache
FromValves(setting) == IF setting # <<>> THEN clean_credential(setting) ELSE <<>>

FromEnviron(resolved, env, name) ==
    IF resolved = <<>> THEN clean_credential(EnvironGet(env, name)) ELSE resolved

FromRuntime(resolved, runtime) ==
    IF resolved = <<>> /\ runtime # <<>> THEN runtime ELSE resolved

\* priority 4, lines 128-134, that stores the parameter whenever one is
\* given
FromParameter_AlwaysCaches(resolved, runtime, parameter) ==
    IF resolved = <<>> /\ parameter # <<>>
    THEN [resolved |-> clean_credential(parameter),
          runtime |-> clean_credential(parameter)]
    ELSE [resolved |-> resolved,
          runtime |-> IF parameter # <<>>
                      THEN clean_credential(parameter) ELSE runtime]

\* priority 4, lines 128-134: the parameter, stored in the runtime cache
FromParameter(resolved, runtime, parameter) ==
    IF resolved = <<>> /\ parameter # <<>>
    THEN [resolved |-> clean_credential(parameter),
          runtime |-> clean_credential(parameter)]
    ELSE [resolved |-> resolved, runtime |-> runtime]

\* _resolve_credentials for one credential
Resolve(setting, env, name, runtime, parameter) ==
    FromParameter(
        FromRuntime(FromEnviron(FromValves(setting), env, name), runtime),
        runtime, parameter)

\* Tools._make_request, lines 160-167: the credentials are resolved, and
\* the request is sent when both are there
_make_request(access_token, site_id) ==
    /\ \E t \in {Resolve(cms_valves.WP_ACCESS_TOKEN, environ, "WP_ACCESS_TOKEN",
                         _runtime_token, access_token)},
          s \in {Resolve(cms_valves.WP_SITE_ID, environ, "WP_SITE_ID",
                         _runtime_site_id, site_id)} :
          /\ _runtime_token' = t.runtime
          /\ _runtime_site_id' = s.runtime
          /\ wp_call' = WpCall("_make_request", access_token, site_id, <<>>,
                               t.resolved, s.resolved,
                               IF t.resolved = <<>> \/ s.resolved = <<>>
                               THEN "not configured" ELSE "sent")
    /\ UNCHANGED <<cms_valves, manager_valves, _credential_cache, environ>>
    /\ UNCHANGED <<request_id, soloVars, callVars>>

\* set_wordpress_credentials, lines 82-89: the Valves setting, then the
\* parameter
ResolveSetting(setting, parameter) ==
    IF FromValves(setting) = <<>> /\ parameter # <<>>
    THEN clean_credential(parameter)
    ELSE FromValves(setting)

\* lines 114-116: the three assignments to os.environ, the first of which
\* that raises ends the try block
StoreEnviron(env, token, site, username) ==
    IF PutenvRaises(token)
    THEN [environ |-> env, exc |-> "ValueError"]
    ELSE IF PutenvRaises(site)
    THEN [environ |-> EnvironSet(env, "WP_ACCESS_TOKEN", token),
          exc |-> "ValueError"]
    ELSE IF PutenvRaises(username)
    THEN [environ |-> EnvironSet(EnvironSet(env, "WP_ACCESS_TOKEN", token),
                                 "WP_SITE_ID", site),
          exc |-> "ValueError"]
    ELSE [environ |-> EnvironSet(EnvironSet(EnvironSet(env,
                                     "WP_ACCESS_TOKEN", token),
                                     "WP_SITE_ID", site),
                                 "WP_USERNAME", username),
          exc |-> None]

\* lines 92-139: the validation, the cache (lines 109-111) and os.environ,
\* and the value returned; stored is the outcome of the assignments to os.environ
Store(cache, env, token, site, username, stored) ==
    IF token = <<>>
    THEN [cache |-> cache, environ |-> env, returned |-> "no token"]
    ELSE IF site = <<>>
    THEN [cache |-> cache, environ |-> env, returned |-> "no site id"]
    ELSE [cache |-> CredentialCache(token, site, username),
          environ |-> stored.environ,
          returned |-> IF stored.exc = None THEN "stored" ELSE "error"]

\* set_wordpress_credentials, lines 77-139
SetCredentials(cache, env, valves, access_token, site_id, username) ==
    Store(cache, env,
          ResolveSetting(valves.WP_ACCESS_TOKEN, access_token),
          ResolveSetting(valves.WP_SITE_ID, site_id),
          username,
          StoreEnviron(env,
                       ResolveSetting(valves.WP_ACCESS_TOKEN, access_token),
                       ResolveSetting(valves.WP_SITE_ID, site_id),
                       username))

set_wordpress_credentials(access_token, site_id, username) ==
    /\ \E r \in {SetCredentials(_credential_cache, environ, manager_valves,
                                 access_token, site_id, username)} :
          /\ _credential_cache' = r.cache
          /\ environ' = r.environ
          /\ wp_call' = WpCall("set_wordpress_credentials", access_token,
                               site_id, username,
                               ResolveSetting(manager_valves.WP_ACCESS_TOKEN,
                                              access_token),
                               ResolveSetting(manager_valves.WP_SITE_ID, site_id),
                               r.returned)
    /\ UNCHANGED <<cms_valves, manager_valves, _runtime_token, _runtime_site_id>>
    /\ UNCHANGED <<request_id, soloVars, callVars>>

\* clear_wordpress_credentials, lines 214-236
clear_wordpress_credentials ==
    /\ _credential_cache' = CredentialCache(<<>>, <<>>, <<>>)
    /\ environ' = EnvironPop(EnvironPop(EnvironPop(environ, "WP_ACCESS_TOKEN"),
                                        "WP_SITE_ID"), "WP_USERNAME")
    /\ wp_call' = WpCall("clear_wordpress_credentials", <<>>, <<>>, <<>>,
                         <<>>, <<>>, "cleared")
    /\ UNCHANGED <<cms_valves, manager_valves, _runtime_token, _runtime_site_id>>
    /\ UNCHANGED <<request_id, soloVars, callVars>>

\* "a or b" of two strings
Or(a, b) == IF a # <<>> THEN a ELSE b

\* get_cached_credentials, lines 239-249
get_cached_credentials ==
    /\ wp_call' = WpCall("get_cached_credentials", <<>>, <<>>, <<>>,
                         Or(_credential_cache.access_token,
                            EnvironGet(environ, "WP_ACCESS_TOKEN")),
                         Or(_credential_cache.site_id,
                            EnvironGet(environ, "WP_SITE_ID")),
                         "pair")
    /\ UNCHANGED <<cms_valves, manager_valves, _runtime_token, _runtime_site_id,
                   _credential_cache, environ>>
    /\ UNCHANGED <<request_id, soloVars, callVars>>

-----------------------------------------------------------------------------

\* the Pipe instance after __init__ and one invocation about to start
InitPipe ==
    /\ pc = "start"
    /\ ANTHROPIC_API_KEY \in {"", "sk-ant"}
    /\ request_id = None
    /\ result = NoResult
    /\ raised = None
    /\ validated = 0
    /\ processed = 0
    /\ posts = 0
    /\ current_tool_use = InitialLocals.current_tool_use
    /\ tool_use_input_json = InitialLocals.tool_use_input_json
    /\ tool_call_index = InitialLocals.tool_call_index
    /\ has_tool_calls = InitialLocals.has_tool_calls
    /\ emitted = <<>>
    /\ received = <<>>
    /\ unread = <<>>
    /\ failure = None
    /\ stream_response = [status |-> 0, body |-> None]
    /\ retry_count = 0
    /\ sleeps = <<>>
    /\ attempts = <<>>
    /\ response = NoResponse
    /\ THINKING_BUDGET_TOKENS = 16000
    /\ body = NoBody
    /\ payload = NoPayload
    /\ headers = NoHeaders

Init == InitPipe /\ InitCalls /\ InitWordPress

Next ==
    \/ PipeNoKey
    \/ \E at \in {"messages", "validate", "process"} : PipeBuildRaises(at)
    \/ \E stream \in BOOLEAN : PipeBuild(stream)
    \/ \E exc \in {"ClientError", "TimeoutError"} : SendPostRaises(exc)
    \/ \E hdr \in RetryAfterValues, rid \in RequestIds : SendPost429(hdr, rid)
    \/ \E status \in {200, 500}, rid \in RequestIds, exc \in {None, "ClientError"} :
          SendPostOther(status, rid, exc)
    \/ SendExhausted
    \/ \E exc \in {None, "KeyError"} : PipeHandle(exc)
    \/ \E exc \in {"ClientError", "TimeoutError"} : StreamPostRaises(exc)
    \/ \E rid \in RequestIds : StreamPostOK(rid)
    \/ \E status \in ErrorStatuses, rid \in RequestIds, exc \in {None, "ClientError"} :
          StreamPostError(status, rid, exc)
    \/ \E line \in Lines : StreamLine(line)
    \/ \E exc \in {"ClientError", "TimeoutError"} : StreamReadRaises(exc)
    \/ StreamEOF
    \/ \E line \in Lines : VendorLineUnread(line)

Spec == Init /\ [][Next]_vars

-----------------------------------------------------------------------------
(* The request builder on bounded families of requests: model identifiers  *)
(* and max_tokens values, message lists over an alphabet of messages, and  *)
(* requests carrying images.  The POST of the built request fails, which   *)
(* ends the call after one network call.                                   *)

MaxMessages == 3

NoUrl == [scheme |-> None, media_type |-> None, length |-> 0]

TextItem(text, cache_control) == Item("text", text, NoUrl, cache_control, None)

ImageItem(url) == Item("image_url", "", url, NoCacheControl, None)

PdfItem(url, cache_control) == Item("pdf_url", "", url, cache_control, None)

FileReference(file_id) ==
    Item("file_reference", "", NoUrl, NoCacheControl, file_id)

UserMessage(content) == Message("user", content, <<>>, None)

Prefixes == {<<>>, <<"api", "/">>, <<"anthropic", "/", "api", "/">>,
             <<"team", "-thinking", "/">>}

Names == {<<"claude-3-5-sonnet-latest">>, <<"claude-3-7-sonnet-latest">>,
          <<"claude-sonnet-4-0">>, <<"claude-2.1">>,
          <<"claude", "-thinking", "-v2">>}

ModelIds == {p \o n \o t : p \in Prefixes, n \in Names,
                           t \in {<<>>, <<"-thinking">>}}

MaxTokensValues == {<<>>, <<1>>, <<4096>>, <<4097>>, <<8192>>, <<8193>>,
                    <<64000>>, <<200000>>}

Body(model, maxtok, stream, interleaved_thinking, messages) ==
    [model |-> model, max_tokens |-> maxtok, stream |-> stream,
     interleaved_thinking |-> interleaved_thinking, messages |-> messages]

ModelBodies ==
    {Body(m, t, st, il, <<UserMessage(Str("hi"))>>) :
        m \in ModelIds, t \in MaxTokensValues, st \in BOOLEAN, il \in BOOLEAN}

MessageAlphabet ==
    {UserMessage(Str("hi")),
     UserMessage(Str("")),
     UserMessage(List(<<>>)),
     UserMessage(List(<<TextItem("see", NoCacheControl),
                        PdfItem(HttpsUrl, NoCacheControl)>>)),
     UserMessage(List(<<TextItem("ctx", CacheControl(None))>>)),
     UserMessage(List(<<TextItem("ctx", CacheControl("1h")),
                        FileReference("file_1")>>)),
     UserMessage(List(<<FileReference(None)>>)),
     Message("assistant", Str("ok"), <<>>, None),
     Message("assistant", Str(""), <<>>, None),
     Message("assistant", NoContent,
             <<ToolCall("call_1", "search", "{}")>>, None),
     Message("assistant", Str("calling"),
             <<ToolCall("call_2", "search", "{oops")>>, None),
     Message("tool", Str("res"), <<>>, "call_1"),
     Message("tool", Str(""), <<>>, "call_2"),
     Message("tool", List(<<TextItem("r", NoCacheControl)>>), <<>>, "call_3")}

MessageLists ==
    UNION {[1..n -> MessageAlphabet] : n \in 0..MaxMessages}

MessageBodies ==
    {Body(<<"api", "/", "claude-3-5-sonnet-latest">>, <<>>, FALSE, FALSE, ms) :
        ms \in MessageLists}

\* base64 lengths: a small image, the longest one within MAX_IMAGE_SIZE and
\* the shortest one above it
ImageLengths == {4, 6990506, 6990507}

ImageItems ==
    {ImageItem(DataUrl(m, l)) : m \in {"image/png", "image/bmp"},
                                l \in ImageLengths}
    \cup {ImageItem(HttpsUrl)}

ImageContents ==
    {<<a>> : a \in ImageItems} \cup {<<a, b>> : a, b \in ImageItems}

ImageMessages ==
    {Message(r[1], List(c), r[2], r[3]) :
        r \in {<<"user", <<>>, None>>,
               <<"assistant", <<>>, None>>,
               <<"assistant", <<ToolCall("call_1", "search", "{}")>>, None>>,
               <<"tool", <<>>, "call_1">>},
        c \in ImageContents}

Repeat(item, n) == [i \in 1..n |-> item]

\* n images of base64 length l in one message of the given role, or n - 1
\* there and one in a user message, followed or not by one more small image
ManyImages(n, l, role, split, extra) ==
    LET image == ImageItem(DataUrl("image/png", l))
        holder(k) == Message(role, List(Repeat(image, k)), <<>>,
                             IF role = "tool" THEN "call_1" ELSE None)
    IN (IF split
        THEN <<holder(n - 1), UserMessage(List(<<image>>))>>
        ELSE <<holder(n)>>)
       \o (IF extra
           THEN <<UserMessage(List(<<ImageItem(DataUrl("image/png", 14))>>))>>
           ELSE <<>>)

ImageCounts == {20, 21, 100, 101}

ImageBodies ==
    {Body(<<"api", "/", "claude-3-5-sonnet-latest">>, <<>>, FALSE, FALSE, <<m>>) :
        m \in ImageMessages}
    \cup {Body(<<"api", "/", "claude-3-5-sonnet-latest">>, <<>>, FALSE, FALSE,
               ManyImages(n, l, role, split, extra)) :
            n \in ImageCounts, l \in ImageLengths, role \in {"user", "tool"},
            split \in BOOLEAN, extra \in BOOLEAN}

InitBuild ==
    /\ pc = "start"
    /\ ANTHROPIC_API_KEY = "sk-ant"
    /\ request_id = None
    /\ result = NoResult
    /\ raised = None
    /\ validated = 0
    /\ processed = 0
    /\ posts = 0
    /\ current_tool_use = InitialLocals.current_tool_use
    /\ tool_use_input_json = InitialLocals.tool_use_input_json
    /\ tool_call_index = InitialLocals.tool_call_index
    /\ has_tool_calls = InitialLocals.has_tool_calls
    /\ emitted = <<>>
    /\ received = <<>>
    /\ unread = <<>>
    /\ failure = None
    /\ stream_response = [status |-> 0, body |-> None]
    /\ retry_count = 0
    /\ sleeps = <<>>
    /\ attempts = <<>>
    /\ response = NoResponse
    /\ \/ /\ THINKING_BUDGET_TOKENS \in {16000, 1024}
          /\ body \in ModelBodies
       \/ /\ THINKING_BUDGET_TOKENS = 16000
          /\ body \in MessageBodies \cup ImageBodies
    /\ payload = NoPayload
    /\ headers = NoHeaders
    /\ InitCalls
    /\ InitWordPress

NextBuild ==
    \/ PipeRequest
    \/ \E exc \in {"ClientError", "TimeoutError"} : StreamPostRaises(exc)
    \/ \E exc \in {"ClientError", "TimeoutError"} : SendPostRaises(exc)

SpecBuild == InitBuild /\ [][NextBuild]_vars

-----------------------------------------------------------------------------
(* Two invocations of pipe on one Pipe instance, interleaved at their      *)
(* awaits.                                                                 *)

InitConc == Init /\ ANTHROPIC_API_KEY = "sk-ant"

NextConc ==
    \E i \in Invocations :
        \/ \E kind \in {"invalid", "stream", "send"} : CallPipe(i, kind)
        \/ CallStreamPostRaises(i, "ClientError")
        \/ \E status \in {200, 500}, rid \in CallRequestIds(i) :
              CallStreamPost(i, status, rid)
        \/ \E exc \in {None, "ClientError"} : CallStreamText(i, exc)
        \/ \E line \in CallLines : CallStreamLine(i, line)
        \/ CallStreamReadRaises(i, "TimeoutError")
        \/ CallStreamEOF(i)
        \/ CallSendPostRaises(i, "ClientError")
        \/ \E hdr \in {None, "Wed, 21 Oct 2015 07:28:00 GMT"},
              rid \in CallRequestIds(i) : CallSendPost429(i, hdr, rid)
        \/ \E status \in {200, 500}, rid \in CallRequestIds(i) :
              CallSendPostOther(i, status, rid)
        \/ \E exc \in {None, "ClientError", "KeyError"} : CallSendBody(i, exc)
        \/ CallSendExhausted(i)

SpecConc == InitConc /\ [][NextConc]_vars

-----------------------------------------------------------------------------
(* The WordPress tools of one process: the Valves of both tools and the    *)
(* environment the process starts with are set by the administrator, the   *)
(* arguments of the calls come from the language model.                    *)

TokenSettings == {<<>>, <<" ">>, <<"vtok", "\n">>}

SiteSettings == {<<>>, <<"vsite">>}

\* os.environ when the process starts
Environs ==
    {<<>>,
     [n \in {"WP_ACCESS_TOKEN"} |-> <<"etok", "\n">>],
     [n \in {"WP_ACCESS_TOKEN", "WP_SITE_ID"} |->
         IF n = "WP_ACCESS_TOKEN" THEN <<" ">> ELSE <<"esite">>]}

TokenArguments == {<<>>, <<" ">>, <<"ptok">>, <<"p", NUL, "tok">>}

SiteArguments == {<<>>, <<"psite">>, <<" ", "qsite">>}

UsernameArguments == {<<>>, <<"bob">>}

InitWP ==
    /\ InitPipe
    /\ ANTHROPIC_API_KEY = ""
    /\ InitCalls
    /\ cms_valves \in {Valves(t, s) : t \in TokenSettings, s \in SiteSettings}
    /\ manager_valves \in {Valves(t, s) : t \in {<<>>, <<"mtok">>},
                                          s \in {<<>>, <<"msite">>}}
    /\ environ \in Environs
    /\ _runtime_token = <<>>
    /\ _runtime_site_id = <<>>
    /\ _credential_cache = CredentialCache(<<>>, <<>>, <<>>)
    /\ wp_call = NoWpCall

NextWP ==
    \/ \E access_token \in TokenArguments, site_id \in SiteArguments :
          _make_request(access_token, site_id)
    \/ \E access_token \in TokenArguments, site_id \in SiteArguments,
          username \in UsernameArguments :
          set_wordpress_credentials(access_token, site_id, username)
    \/ clear_wordpress_credentials
    \/ get_cached_credentials

SpecWP == InitWP /\ [][NextWP]_vars

-----------------------------------------------------------------------------
(* The generator run on a whole body: the loop of lines 549-661 followed   *)
(* by the handlers of lines 663-672, from the locals st and the items out. *)

RECURSIVE RunLines(_, _, _, _)
RunLines(st, out, lines, rid) ==
    IF lines = <<>>
    THEN [st |-> st, out |-> out]
    ELSE LET r == HandleLine(st, Head(lines))
         IN IF r.exc # None
            THEN [st |-> r.st, out |-> out \o r.out \o StreamExcept(r.exc, rid).out]
            ELSE IF r.brk
            THEN [st |-> r.st, out |-> out \o r.out]
            ELSE RunLines(r.st, out \o r.out, Tail(lines), rid)

-----------------------------------------------------------------------------
(* Properties.                                                             *)

Last(seq) == seq[Len(seq)]

\* the body the vendor sent on the streaming response
Upstream == received \o unread

IsMessageStop(line) == line.raw = "json" /\ line.type = "message_stop"

IsToolUseStart(line) ==
    line.raw = "json" /\ line.type = "content_block_start" /\ line.sub = "tool_use"

IsMalformed(line) == line.raw \in {"badjson", "badutf8", "notype"}

IsChunk(x) == x.object = "chat.completion.chunk"

IsFinishChunk(x) == IsChunk(x) /\ x.finish_reason # None

IsToolCallChunk(x) == IsChunk(x) /\ x.tool_calls # <<>>

IsInitialChunk(x) ==
    /\ IsToolCallChunk(x)
    /\ x.tool_calls[1].id # None
    /\ x.tool_calls[1].name # None
    /\ x.tool_calls[1].arguments = ""

IsArgumentChunk(x) ==
    /\ IsToolCallChunk(x)
    /\ x.tool_calls[1].id = None
    /\ x.tool_calls[1].name = None

IsErrorItem(x) == x.object = "error"

DoneCount == Cardinality({i \in 1..Len(emitted) : emitted[i].object = "[DONE]"})

ToolUseStarts == Cardinality({j \in 1..Len(received) : IsToolUseStart(received[j])})

\* C1: when the body of a 200 response contains a message_stop event, the
\* generator ends having emitted [DONE] exactly once, as its last item.
C1_DoneExactlyOnceAndLast ==
    (/\ pc = "ended"
     /\ stream_response.status = 200
     /\ \E i \in 1..Len(Upstream) : IsMessageStop(Upstream[i]))
    => /\ DoneCount = 1
       /\ Last(emitted).object = "[DONE]"

\* C2: a finish chunk carries "tool_calls" exactly when a tool_use block
\* was started earlier in the stream, and "stop" otherwise.
C2_FinishReason ==
    \A i \in 1..Len(emitted) :
        IsFinishChunk(emitted[i]) =>
            emitted[i].finish_reason =
                IF ToolUseStarts > 0 THEN "tool_calls" ELSE "stop"

\* a text delta after a closed tool block, then the finish chunk
C2_Witness ==
    /\ Len(received) = 4
    /\ IsToolUseStart(received[1])
    /\ received[2].type = "content_block_stop"
    /\ received[3].sub = "text_delta"
    /\ IsMessageStop(received[4])
    /\ \E i \in 1..Len(emitted) :
          IsFinishChunk(emitted[i]) /\ emitted[i].finish_reason = "tool_calls"

\* the chunks of emitted that concern tool calls, and the finish chunk
ToolChunks == SelectSeq(emitted, LAMBDA x : IsToolCallChunk(x) \/ IsFinishChunk(x))

\* C3: in a finished stream with exactly one tool_use block the tool-call
\* chunks are one initial chunk, then argument fragments only, then the
\* finish chunk with finish_reason "tool_calls".
C3_OneToolBlockOrder ==
    (/\ pc = "ended"
     /\ received # <<>>
     /\ IsMessageStop(Last(received))
     /\ ToolUseStarts = 1)
    => LET tc == ToolChunks
       IN /\ Len(tc) >= 2
          /\ IsInitialChunk(tc[1])
          /\ tc[1].tool_calls[1].name = ToolName
          /\ IsFinishChunk(tc[Len(tc)])
          /\ tc[Len(tc)].finish_reason = "tool_calls"
          /\ \A i \in 2..(Len(tc) - 1) : IsArgumentChunk(tc[i])

\* start, one fragment, stop, message_stop
C3_Witness ==
    /\ pc = "ended"
    /\ Len(received) = 4
    /\ IsToolUseStart(received[1])
    /\ received[2].sub = "input_json_delta"
    /\ received[3].type = "content_block_stop"
    /\ IsMessageStop(received[4])
    /\ Len(ToolChunks) = 3
    /\ IsArgumentChunk(ToolChunks[2])

\* C4: _send_request never posts more than max_retries times, and when
\* three attempts were all answered 429 it returns the synthetic response
\* 429 "Max retries exceeded", which pipe turns into an error dict.
C4_ThreeAttemptsThenSynthetic429 ==
    /\ Len(attempts) <= 3
    /\ (result # Generator => posts <= 3)
    /\ (/\ Len(attempts) = 3
        /\ \A i \in 1..3 : attempts[i].status = 429
        /\ pc \in {"handle", "returned"})
       => /\ response = ResponseWrapper(429, "Max retries exceeded")
          /\ raised = None
          /\ failure = None
          /\ pc = "returned" =>
                result = ErrorDict("Error: HTTP", 429, "Max retries exceeded", None)

\* C5: every 429 is followed by one sleep, of the retry-after header when
\* there is one and of base_delay * 2^attempt otherwise, before the next
\* attempt.
C5_SleepAfterEach429 ==
    \A i \in 1..Len(attempts) :
        attempts[i].status = 429 =>
            /\ i <= Len(sleeps)
            /\ sleeps[i] = IF attempts[i].retry_after # None
                           THEN IntOf(attempts[i].retry_after)
                           ELSE base_delay * (2 ^ (i - 1))

\* C6: only a 429 answer of _send_request is followed by another attempt:
\* every attempt but the last was answered 429, and a streaming invocation
\* posts once.
C6_OnlyRateLimitRetried ==
    /\ \A i \in 1..(Len(attempts) - 1) :
          attempts[i].status = 429 /\ attempts[i].exc = None
    /\ result # Generator => posts = Len(attempts)
    /\ result = Generator => posts = IF pc = "stream" THEN 0 ELSE 1

\* a 429 then a 500: the 500 ends the call
C6_Witness ==
    /\ pc = "returned"
    /\ Len(attempts) = 2
    /\ attempts[1].status = 429
    /\ attempts[2].status = 500
    /\ result = ErrorDict("Error: HTTP", 500, "body", None)

\* C7: no exception leaves pipe or the generator: after a failure pipe has
\* returned an error dict, and the generator has yielded an error string
\* as its last item and ended.
C7_NoRawException ==
    /\ raised = None
    /\ pc = "returned" => result.type \in {"str", "dict"}
    /\ failure # None =>
          IF result = Generator
          THEN /\ pc = "ended"
               /\ emitted # <<>>
               /\ IsErrorItem(Last(emitted))
          ELSE /\ pc = "returned"
               /\ result.type = "dict"
               /\ result.format = "text"

\* an event without "type" while streaming
C7_Witness ==
    /\ result = Generator
    /\ failure = "KeyError"
    /\ pc = "ended"
    /\ Last(emitted) = ErrorText("Stream error", 0, "KeyError", request_id)

\* C8: with an empty API key pipe returns the error value at once: no
\* image validation, no message processing, no POST.
C8_MissingKeyShortCircuits ==
    (ANTHROPIC_API_KEY = "" /\ pc # "start")
    => /\ pc = "returned"
       /\ result = ErrorDict("Error: ANTHROPIC_API_KEY is required", 0, None, None)
       /\ validated = 0
       /\ processed = 0
       /\ posts = 0

C8_Witness ==
    /\ ANTHROPIC_API_KEY = ""
    /\ pc = "returned"
    /\ result.content.text = "Error: ANTHROPIC_API_KEY is required"

C10_MalformedLinesLeaveNoTrace ==
    (stream_response.status = 200 /\ failure \notin {"ClientError", "TimeoutError"})
    => LET r == RunLines(InitialLocals, <<>>,
                         SelectSeq(received, LAMBDA l : ~IsMalformed(l)),
                         request_id)
       IN /\ emitted = r.out
          /\ StreamLocals = r.st

-----------------------------------------------------------------------------
(* The content blocks of the body read so far.                             *)

IsBlockStart(line) == line.raw = "json" /\ line.type = "content_block_start"

IsBlockStop(line) == line.raw = "json" /\ line.type = "content_block_stop"

IsJsonDelta(line) ==
    /\ line.raw = "json"
    /\ line.type = "content_block_delta"
    /\ line.sub = "input_json_delta"

\* the blocks started and not yet stopped after the lines, oldest first: a
\* content_block_stop closes the block started last
RECURSIVE OpenBlocks(_)
OpenBlocks(lines) ==
    IF lines = <<>>
    THEN <<>>
    ELSE LET before == OpenBlocks(SubSeq(lines, 1, Len(lines) - 1))
             l == lines[Len(lines)]
         IN IF IsBlockStart(l)
            THEN Append(before, l.sub)
            ELSE IF IsBlockStop(l) /\ before # <<>>
            THEN SubSeq(before, 1, Len(before) - 1)
            ELSE before

ToolBlockOpen(lines) ==
    \E i \in 1..Len(OpenBlocks(lines)) : OpenBlocks(lines)[i] = "tool_use"

\* the content_block_stop lines that closed a tool_use block
ToolBlockStops(lines) ==
    {i \in 1..Len(lines) :
        /\ IsBlockStop(lines[i])
        /\ OpenBlocks(SubSeq(lines, 1, i - 1)) # <<>>
        /\ Last(OpenBlocks(SubSeq(lines, 1, i - 1))) = "tool_use"}

\* a tool_use start among the first k lines is followed by no
\* content_block_stop up to line k
StartedAndNoStopSince(k) ==
    \E j \in 1..k :
        /\ IsToolUseStart(received[j])
        /\ \A m \in (j + 1)..k : ~IsBlockStop(received[m])

\* the content_block_stop lines read while a tool call was in progress
StopsWhileActive(k) ==
    {i \in 1..k : IsBlockStop(received[i]) /\ StartedAndNoStopSince(i - 1)}

\* C11 as claimed: the accumulator exists exactly while a tool_use block is
\* open, and the index counts the tool_use blocks that were stopped; the
\* stop of another block changes neither.
C11_ActiveUntilOwnStop ==
    /\ (current_tool_use # NoTool) = ToolBlockOpen(received)
    /\ tool_call_index = Cardinality(ToolBlockStops(received))

\* C11 amended: the accumulator exists exactly from a tool_use start to the
\* next content_block_stop of any block, the index counts the stops read
\* while it existed, and a stop read while there is none changes nothing.
C11_ActiveUntilNextStop ==
    /\ (current_tool_use # NoTool) = StartedAndNoStopSince(Len(received))
    /\ tool_call_index = Cardinality(StopsWhileActive(Len(received)))
    /\ current_tool_use # NoTool => current_tool_use.index = tool_call_index

\* a tool block closed, then a text block opened and closed: the second
\* stop leaves the index at 1
C11_Witness ==
    /\ Len(received) = 4
    /\ IsToolUseStart(received[1])
    /\ IsBlockStop(received[2])
    /\ IsBlockStart(received[3]) /\ received[3].sub = "text"
    /\ IsBlockStop(received[4])
    /\ current_tool_use = NoTool
    /\ tool_call_index = 1

InitialChunks == SelectSeq(emitted, IsInitialChunk)

\* positions in received of the tool_use starts, in order
RECURSIVE ToolStartPositions(_)
ToolStartPositions(k) ==
    IF k = 0
    THEN <<>>
    ELSE IF IsToolUseStart(received[k])
    THEN Append(ToolStartPositions(k - 1), k)
    ELSE ToolStartPositions(k - 1)

\* C12 as claimed: the initial chunk of the k-th tool_use block carries
\* index k-1, so no two blocks are emitted with the same index.
C12_KthBlockHasIndexKMinus1 ==
    \A k \in 1..Len(InitialChunks) :
        InitialChunks[k].tool_calls[1].index = k - 1

\* C12 amended: the initial chunk of a tool_use block carries the number of
\* content_block_stop events read while a tool call was in progress before
\* it, and an argument fragment carries the index of the initial chunk
\* emitted last before it.
C12_IndexCountsStopsWhileActive ==
    /\ Len(InitialChunks) = Len(ToolStartPositions(Len(received)))
    /\ \A k \in 1..Len(InitialChunks) :
          InitialChunks[k].tool_calls[1].index =
              Cardinality(StopsWhileActive(ToolStartPositions(Len(received))[k]))
    /\ \A e \in 1..Len(emitted) :
          IsArgumentChunk(emitted[e]) =>
              \E i \in 1..(e - 1) :
                  /\ IsInitialChunk(emitted[i])
                  /\ emitted[i].tool_calls[1].index = emitted[e].tool_calls[1].index
                  /\ \A m \in (i + 1)..(e - 1) : ~IsInitialChunk(emitted[m])

\* two tool blocks, each stopped before the next: indexes 0 and 1
C12_Witness ==
    /\ Len(received) = 4
    /\ IsToolUseStart(received[1])
    /\ IsBlockStop(received[2])
    /\ IsToolUseStart(received[3])
    /\ IsJsonDelta(received[4])
    /\ Len(emitted) = 3
    /\ emitted[1].tool_calls[1].index = 0
    /\ emitted[2].tool_calls[1].index = 1
    /\ IsArgumentChunk(emitted[3]) /\ emitted[3].tool_calls[1].index = 1

\* concatenation of a sequence of strings

\* the argument strings of the fragments emitted with an index
ArgumentsAt(index) ==
    LET chunks == SelectSeq(emitted,
                    LAMBDA x : IsArgumentChunk(x) /\ x.tool_calls[1].index = index)
    IN [i \in 1..Len(chunks) |-> chunks[i].tool_calls[1].arguments]

\* the partial_json values read for the tool_use block started at line p:
\* those between the start and the content_block_stop that ends the tool
\* call (or the end of what was read)
RECURSIVE PartialJsonFrom(_)
PartialJsonFrom(p) ==
    IF p > Len(received) \/ IsBlockStop(received[p])
    THEN <<>>
    ELSE IF IsJsonDelta(received[p])
    THEN <<received[p].val>> \o PartialJsonFrom(p + 1)
    ELSE PartialJsonFrom(p + 1)

\* C13 as claimed: for every tool_use block the fragments emitted with the
\* block's index concatenate to the partial_json values read for the block.
C13_FragmentsPerBlock ==
    \A k \in 1..Len(InitialChunks) :
        Concat(ArgumentsAt(InitialChunks[k].tool_calls[1].index)) =
            Concat(PartialJsonFrom(ToolStartPositions(Len(received))[k] + 1))

\* no tool_use block starts while a tool call is in progress
NoToolStartWhileActive ==
    \A p \in 1..Len(received) :
        IsToolUseStart(received[p]) => ~StartedAndNoStopSince(p - 1)

\* C13 amended: the same, for streams in which every tool_use block is
\* stopped before the next one starts; the fragments are the non-empty
\* partial_json values themselves, in order.
C13_FragmentsPerBlockSequential ==
    NoToolStartWhileActive =>
        \A k \in 1..Len(InitialChunks) :
            /\ Concat(ArgumentsAt(InitialChunks[k].tool_calls[1].index)) =
                  Concat(PartialJsonFrom(ToolStartPositions(Len(received))[k] + 1))
            /\ ArgumentsAt(InitialChunks[k].tool_calls[1].index) =
                  SelectSeq(PartialJsonFrom(ToolStartPositions(Len(received))[k] + 1),
                            LAMBDA str : str # "")

\* a block that received "{" then "}"
C13_Witness ==
    /\ Len(received) = 4
    /\ IsToolUseStart(received[1])
    /\ IsJsonDelta(received[2]) /\ received[2].val = "{"
    /\ IsJsonDelta(received[3]) /\ received[3].val = "}"
    /\ IsBlockStop(received[4])
    /\ ArgumentsAt(0) = <<"{", "}">>

\* the line read by the step, when the step reads one
LineRead == received'[Len(received')]

IsPlainDelta(line) ==
    /\ line.raw = "json"
    /\ line.type = "content_block_delta"
    /\ line.sub \in {"text_delta", "thinking_delta", "citations_delta"}

\* C14: reading a text_delta, thinking_delta or citations_delta leaves the
\* locals of the translator unchanged and emits one chunk without
\* tool_calls: the text as content (text, citation marker) or as
\* reasoning_content (thinking).
C14_PlainDeltaFrame ==
    [][(Len(received') = Len(received) + 1 /\ IsPlainDelta(LineRead))
       => /\ UNCHANGED streamLocalVars
          /\ Len(emitted') = Len(emitted) + 1
          /\ SubSeq(emitted', 1, Len(emitted)) = emitted
          /\ LET c == emitted'[Len(emitted')]
             IN /\ IsChunk(c)
                /\ c.tool_calls = <<>>
                /\ c.finish_reason = None
                /\ IF LineRead.sub = "thinking_delta"
                   THEN c.reasoning_content = LineRead.val /\ c.content = None
                   ELSE /\ c.reasoning_content = None
                        /\ c.content = IF LineRead.sub = "text_delta"
                                       THEN LineRead.val
                                       ELSE " [0: " \o LineRead.val \o "]"]_vars

\* a text delta read while a tool call is in progress
C14_Witness ==
    /\ Len(received) = 2
    /\ IsToolUseStart(received[1])
    /\ received[2].sub = "text_delta"
    /\ current_tool_use # NoTool
    /\ Len(emitted) = 2
    /\ emitted[2].content = "Hi"

-----------------------------------------------------------------------------
(* Properties of the request builder, over SpecBuild.                      *)

\* the request was built: pipe went past line 467 with a payload
RequestBuilt == pc # "start" /\ payload # NoPayload

\* the identifier ends with the piece "-thinking"
HasThinkingSuffix(model) == model # <<>> /\ Last(model) = "-thinking"

\* the pieces after the last "/"
LastSegment(model) ==
    SubSeq(model,
           Cardinality({i \in DOMAIN model :
                            \E j \in DOMAIN model : j >= i /\ model[j] = "/"}) + 1,
           Len(model))

StripThinkingSuffix(name) ==
    IF HasThinkingSuffix(name) THEN SubSeq(name, 1, Len(name) - 1) ELSE name

\* C15: the payload's model is the part of the identifier after the last
\* "/" without its "-thinking" suffix, and the payload has a thinking key,
\* {type: enabled, budget_tokens: THINKING_BUDGET_TOKENS}, exactly when the
\* identifier carries the suffix; without the suffix the model name is the
\* last segment unchanged.
C15_ModelNameAndThinking ==
    RequestBuilt =>
        /\ payload.model = Concat(StripThinkingSuffix(LastSegment(body.model)))
        /\ payload.thinking # <<>> <=> HasThinkingSuffix(body.model)
        /\ payload.thinking # <<>> =>
               payload.thinking = <<[type |-> "enabled",
                                     budget_tokens |-> THINKING_BUDGET_TOKENS]>>

\* the static ceiling of a vendor model name
Ceiling(name) ==
    IF name \in DOMAIN MODEL_MAX_TOKENS THEN MODEL_MAX_TOKENS[name] ELSE 4096

\* C16: the payload's max_tokens is min(requested, ceiling of the resolved
\* model), the ceiling when the request gives none, so never above the
\* ceiling; and a request is built and sent whatever max_tokens it asks for:
\* one above the ceiling is truncated, not rejected.
C16_MaxTokensClamped ==
    /\ RequestBuilt =>
           /\ payload.max_tokens <= Ceiling(payload.model)
           /\ body.max_tokens = <<>> =>
                  payload.max_tokens = Ceiling(payload.model)
           /\ body.max_tokens # <<>> =>
                  payload.max_tokens =
                      IF body.max_tokens[1] < Ceiling(payload.model)
                      THEN body.max_tokens[1]
                      ELSE Ceiling(payload.model)
    /\ (pc # "start" /\ body.max_tokens # <<>>) =>
           (RequestBuilt <=>
                BuildRequest([body EXCEPT !.max_tokens = <<>>],
                             THINKING_BUDGET_TOKENS).exc = NoException)

\* a request above the ceiling of its model was truncated and posted
C16_Witness ==
    /\ body.max_tokens = <<8193>>
    /\ payload.model = "claude-3-5-sonnet-latest"
    /\ payload.max_tokens = 8192
    /\ posts = 1

Range(seq) == {seq[i] : i \in DOMAIN seq}

\* the items of all list contents of the request, in any role
AllItems(messages) ==
    UNION {Range(messages[i].content.items) :
               i \in {k \in DOMAIN messages : messages[k].content.kind = "list"}}

\* the flags the triggering content kinds, the resolved model and the
\* thinking and interleaved settings call for
FlagsFor(name, thinking, interleaved, items) ==
    {OUTPUT128K_HEADER : x \in {n \in {name} : n \in Output128KModels}}
    \cup {PDF_HEADER : x \in {it \in items : it.type = "pdf_url"}}
    \cup {PROMPT_CACHE_HEADER :
              x \in {it \in items : it.cache_control # NoCacheControl}}
    \cup {EXTENDED_CACHE_HEADER :
              x \in {it \in items : /\ it.cache_control # NoCacheControl
                                    /\ it.cache_control.ttl = "1h"}}
    \cup {FILES_API_HEADER : x \in {it \in items : it.type = "file_reference"}}
    \cup {INTERLEAVED_THINKING_HEADER :
              x \in {t \in {thinking} : t /\ interleaved}}

\* the request with its messages permuted by p and, when rev, the items of
\* every list content reversed
Reversed(seq) == [i \in DOMAIN seq |-> seq[Len(seq) + 1 - i]]

Permuted(b, p, rev) ==
    [b EXCEPT !.messages =
        [i \in DOMAIN b.messages |->
            IF rev
            THEN [b.messages[p[i]] EXCEPT !.content.items = Reversed(@)]
            ELSE b.messages[p[i]]]]

\* items that trigger a flag
TriggeringItems ==
    {PdfItem(HttpsUrl, NoCacheControl), TextItem("ctx", CacheControl(None)),
     TextItem("ctx", CacheControl("1h")), FileReference("file_1")}

\* the request with one more item: at the end of the list content of
\* message i, or in a new user message when i = 0
WithItem(b, i, item) ==
    IF i = 0
    THEN [b EXCEPT !.messages = Append(@, UserMessage(List(<<item>>)))]
    ELSE [b EXCEPT !.messages[i].content.items = Append(@, item)]

OfRole(messages, role) == SelectSeq(messages, LAMBDA m : m.role = role)

EmptyTextBlock == [type |-> "text", text |-> ""]

\* the blocks of the payload's messages that are tool results, and the
\* messages of the payload with role user that hold no tool result
ToolResultBlocks(messages) ==
    Sum([i \in DOMAIN messages |->
            Cardinality({j \in DOMAIN messages[i].content.items :
                             messages[i].content.items[j].type = "tool_result"})])

PlainUserMessages(messages) ==
    SelectSeq(messages,
              LAMBDA m : /\ m.role = "user"
                         /\ \A j \in DOMAIN m.content.items :
                                m.content.items[j].type # "tool_result")

\* every message of the payload has a list as content
ContentsAreLists ==
    \A i \in DOMAIN payload.messages : payload.messages[i].content.kind = "list"

\* C18 as stated: every message of the payload has a list of blocks as
\* content; every assistant message with empty content is sent with a
\* single empty text block; every other message with empty content is
\* omitted, leaving no message and no block.
C18_ListContentEmptyRules ==
    RequestBuilt =>
        /\ ContentsAreLists
        /\ Len(OfRole(payload.messages, "assistant"))
               = Len(OfRole(body.messages, "assistant"))
        /\ \A k \in DOMAIN OfRole(body.messages, "assistant") :
               ~Truthy(OfRole(body.messages, "assistant")[k].content) =>
                   OfRole(payload.messages, "assistant")[k].content.items
                       = <<EmptyTextBlock>>
        /\ Len(PlainUserMessages(payload.messages))
               <= Len(SelectSeq(OfRole(body.messages, "user"),
                                LAMBDA m : Truthy(m.content)))
        /\ ToolResultBlocks(payload.messages)
               = Len(SelectSeq(OfRole(body.messages, "tool"),
                               LAMBDA m : Truthy(m.content)))

\* C18, amended: every message of the payload has a non-empty list of
\* blocks as content; an assistant message without tool_calls and with
\* empty content is sent with a single empty text block, one with
\* tool_calls is sent with its text blocks followed by one tool_use block
\* per tool call, empty content or not; a user message with empty content
\* yields no message; every tool-role message, empty content included,
\* yields one tool_result block.
C18_ListContentEmptyRulesByRole ==
    RequestBuilt =>
        /\ ContentsAreLists
        /\ \A i \in DOMAIN payload.messages :
               payload.messages[i].content.items # <<>>
        /\ Len(OfRole(payload.messages, "assistant"))
               = Len(OfRole(body.messages, "assistant"))
        /\ \A k \in DOMAIN OfRole(body.messages, "assistant") :
               \E m \in {OfRole(body.messages, "assistant")[k]},
                  blocks \in {OfRole(payload.messages, "assistant")[k].content.items} :
                   /\ (~Truthy(m.content) /\ m.tool_calls = <<>>) =>
                          blocks = <<EmptyTextBlock>>
                   /\ m.tool_calls # <<>> =>
                          /\ Len(blocks) >= Len(m.tool_calls)
                          /\ \A j \in DOMAIN blocks :
                                 IF j <= Len(blocks) - Len(m.tool_calls)
                                 THEN blocks[j].type = "text"
                                 ELSE /\ blocks[j].type = "tool_use"
                                      /\ blocks[j].id
                                             = m.tool_calls[j - (Len(blocks)
                                                   - Len(m.tool_calls))].id
                          /\ ~Truthy(m.content) =>
                                 Len(blocks) = Len(m.tool_calls)
        /\ Len(PlainUserMessages(payload.messages))
               <= Len(SelectSeq(OfRole(body.messages, "user"),
                                LAMBDA m : Truthy(m.content)))
        /\ ToolResultBlocks(payload.messages)
               = Len(OfRole(body.messages, "tool"))

\* a request with an empty assistant message, an empty user message, an
\* assistant message with tool_calls and no content, and a tool message
\* with empty content was built and sent
C18_Witness ==
    /\ RequestBuilt
    /\ posts = 1
    /\ Len(body.messages) = 3
    /\ \E i, j, k \in DOMAIN body.messages :
           /\ body.messages[i].role = "assistant"
           /\ body.messages[i].content = Str("")
           /\ body.messages[i].tool_calls = <<>>
           /\ body.messages[j].role = "user"
           /\ ~Truthy(body.messages[j].content)
           /\ body.messages[k].role = "tool"
           /\ body.messages[k].content = Str("")
    /\ Len(payload.messages) = 2
    /\ \E i \in DOMAIN payload.messages :
           payload.messages[i].content.items = <<EmptyTextBlock>>

\* a data-URI image above the single-image ceiling: 3/4 of its base64
\* length exceeds 5 MB
Oversized(item) ==
    /\ item.type = "image_url"
    /\ item.url.scheme = "data"
    /\ 3 * item.url.length > 4 * 5 * 1024 * 1024

\* the error message that cites the computed size of an image
ImageSizeMessage(item) ==
    "Image size exceeds 5.0MB limit: " \o Format2f(3 * item.url.length) \o "MB"

\* pipe returned an error value without any network call
Rejected ==
    /\ pc = "returned"
    /\ result.type = "dict"
    /\ result.content.text = "Error"
    /\ payload = NoPayload
    /\ posts = 0

\* C19 as stated: a request with a data-URI image above the ceiling in any
\* of its messages is rejected without a network call, with an error that
\* cites the computed size of such an image; and the error is given only
\* when such an image exists.
C19_OversizedImageRejectedAnywhere ==
    pc # "start" =>
        /\ (\E item \in AllItems(body.messages) : Oversized(item)) =>
               /\ Rejected
               /\ \E item \in AllItems(body.messages) :
                      /\ Oversized(item)
                      /\ result.content.detail = ImageSizeMessage(item)
        /\ (\A item \in AllItems(body.messages) : ~Oversized(item)) =>
               result.content.detail
                   \notin {ImageSizeMessage(item) :
                               item \in {it \in AllItems(body.messages) :
                                             it.type = "image_url"}}

\* the messages whose list content goes through process_content: those of
\* role user, and of role assistant without tool_calls
ContentProcessed(m) ==
    /\ m.content.kind = "list"
    /\ m.role # "tool"
    /\ ~(m.role = "assistant" /\ m.tool_calls # <<>>)

\* the items of these messages, in the order of the request
RECURSIVE ProcessedItems(_)
ProcessedItems(messages) ==
    IF messages = <<>> THEN <<>>
    ELSE (IF ContentProcessed(Head(messages))
          THEN Head(messages).content.items ELSE <<>>)
         \o ProcessedItems(Tail(messages))

\* an item that process_content refuses
Refused(item) ==
    \/ /\ item.type = "image_url"
       /\ item.url.scheme = "data"
       /\ \/ item.url.media_type \notin SUPPORTED_IMAGE_TYPES
          \/ Oversized(item)
    \/ /\ item.type = "pdf_url"
       /\ item.url.scheme = "data"
       /\ 3 * item.url.length > 4 * 32 * 1024 * 1024

\* C19, amended: a request with a data-URI image above the ceiling in the
\* list content of a user message, or of an assistant message without
\* tool_calls, is rejected without a network call; the error cites the
\* computed size of the image when the aggregate validation passes and the
\* image is of a supported type and the first item of the request that is
\* refused; the error is given only for such an image, so an image at or
\* below the ceiling is never rejected by this check.
C19_OversizedImageRejected ==
    pc # "start" =>
        \E items \in {ProcessedItems(body.messages)} :
            /\ (\E i \in DOMAIN items : Oversized(items[i])) => Rejected
            /\ \A i \in DOMAIN items :
                   (/\ validate_total_image_size(body.messages) = NoException
                    /\ Oversized(items[i])
                    /\ items[i].url.media_type \in SUPPORTED_IMAGE_TYPES
                    /\ \A j \in 1..(i - 1) : ~Refused(items[j]))
                   => /\ Rejected
                      /\ result.content.detail = ImageSizeMessage(items[i])
            /\ (\A i \in DOMAIN items : ~Oversized(items[i])) =>
                   result.content.detail
                       \notin {ImageSizeMessage(item) :
                                   item \in {it \in AllItems(body.messages) :
                                                 it.type = "image_url"}}

\* a user message with one image just above the ceiling was rejected with
\* the size in the error and without a network call
C19_Witness ==
    /\ Rejected
    /\ Len(body.messages) = 1
    /\ body.messages[1].role = "user"
    /\ body.messages[1].content.items
           = <<ImageItem(DataUrl("image/png", 6990507))>>
    /\ result.content.detail = "Image size exceeds 5.0MB limit: 5.00MB"

\* the items of all list contents of the request, in order, whatever the
\* role of the message
RECURSIVE ItemsInOrder(_)
ItemsInOrder(messages) ==
    IF messages = <<>> THEN <<>>
    ELSE (IF Head(messages).content.kind = "list"
          THEN Head(messages).content.items ELSE <<>>)
         \o ItemsInOrder(Tail(messages))

\* the data-URI images of the request
DataImages(messages) ==
    SelectSeq(ItemsInOrder(messages),
              LAMBDA item : /\ item.type = "image_url"
                            /\ item.url.scheme = "data")

\* four times the sum of the decoded sizes of the images
DecodedTotalTimes4(images) ==
    Sum([i \in DOMAIN images |-> 3 * images[i].url.length])

\* C20: when the decoded sizes of the data-URI images of all messages sum
\* to more than 100 MB, or there are more than 100 such images, the request
\* is rejected by the validation, before the messages are processed and
\* without a network call, whatever the size of each image; otherwise the
\* validation passes and the messages are processed.
C20_AggregateValidation ==
    pc # "start" =>
        \E images \in {DataImages(body.messages)} :
            IF DecodedTotalTimes4(images) > 4 * 100 * 1024 * 1024
            THEN /\ Rejected
                 /\ processed = 0
                 /\ result.content.detail
                        = "Total image size exceeds 100.0MB limit: "
                          \o Format2f(DecodedTotalTimes4(images)) \o "MB"
            ELSE IF Len(images) > 100
            THEN /\ Rejected
                 /\ processed = 0
                 /\ result.content.detail
                        = "Too many images: " \o ToString(Len(images))
                          \o ". Maximum is 100."
            ELSE processed = 1

\* a request rejected for its total size although each of its images, spread
\* over several messages, is within the single-image ceiling
C20_Witness ==
    /\ Rejected
    /\ processed = 0
    /\ Len(body.messages) > 1
    /\ \A item \in AllItems(body.messages) : ~Oversized(item)
    /\ Len(DataImages(body.messages)) <= 100
    /\ DecodedTotalTimes4(DataImages(body.messages)) > 4 * 100 * 1024 * 1024

-----------------------------------------------------------------------------
(* C23: tool-role messages batched into user messages.                     *)

\* position i of messages is the last one of a maximal run of consecutive
\* tool-role messages, and the first position of the run that ends at i
EndsToolRun(messages, i) ==
    /\ messages[i].role = "tool"
    /\ (i = Len(messages) \/ messages[i + 1].role # "tool")

RunStart(messages, i) ==
    CHOOSE j \in 1..i :
        /\ \A k \in j..i : messages[k].role = "tool"
        /\ (j = 1 \/ messages[j - 1].role # "tool")

\* one tool_result block per tool message of the run, in the order of the
\* run: its tool_use_id is the tool_call_id of the message
ToolResultBlock(message) ==
    [type |-> "tool_result",
     tool_use_id |-> message.tool_call_id,
     content |-> ToolResult(message).content]

RunBlocks(messages, from, to) ==
    [k \in 1..(to - from + 1) |-> ToolResultBlock(messages[from + k - 1])]

\* what position i contributes to the payload: the one user message of
\* the run that ends there, nothing inside a run, and for another message
\* what it yields on its own
BatchedAt(messages, i) ==
    IF EndsToolRun(messages, i)
    THEN <<[role |-> "user",
            content |-> List(RunBlocks(messages, RunStart(messages, i), i))]>>
    ELSE IF messages[i].role = "tool"
    THEN <<>>
    ELSE _process_messages(<<messages[i]>>).processed_messages

RECURSIVE Flatten(_)
Flatten(seqs) ==
    IF seqs = <<>> THEN <<>> ELSE Head(seqs) \o Flatten(Tail(seqs))

Batched(messages) ==
    Flatten([i \in DOMAIN messages |-> BatchedAt(messages, i)])

\* C23: in the payload every maximal run of consecutive tool-role messages
\* is exactly one user message that lists one tool_result block per tool
\* message of the run in the original order, placed where the run stood
\* (before what the next non-tool message yields, or last when the run is
\* trailing); no tool result is lost, duplicated or reordered and the
\* other messages keep their relative order.
C23_ToolResultsBatched ==
    RequestBuilt => payload.messages = Batched(body.messages)

\* a run of two tool messages before a user message, and a request with
\* two runs separated by one message
C23_Witness ==
    /\ RequestBuilt
    /\ posts = 1
    /\ Len(body.messages) = 3
    /\ body.messages[1].role = "tool"
    /\ body.messages[2].role = "tool"
    /\ body.messages[1].tool_call_id # body.messages[2].tool_call_id
    /\ body.messages[3] = UserMessage(Str("hi"))
    /\ Len(payload.messages) = 2
    /\ Len(payload.messages[1].content.items) = 2
    /\ payload.messages[1].content.items[1].tool_use_id
           = body.messages[1].tool_call_id
    /\ payload.messages[1].content.items[2].tool_use_id
           = body.messages[2].tool_call_id

-----------------------------------------------------------------------------
(* C24: argument fragments belong to the tool call in progress.            *)

\* the step reads one line of the body
ReadsLine == Len(received') = Len(received) + 1

\* the items the step yields
Yielded == SubSeq(emitted', Len(emitted) + 1, Len(emitted'))

\* the index of the initial chunk emitted last
LastInitialIndex == Last(InitialChunks).tool_calls[1].index

\* C24: a step that emits an argument fragment reads an input_json_delta
\* with a non-empty partial_json while a tool call is in progress: a
\* tool_use block was started, its initial chunk with id and name was
\* emitted, no content_block_stop was read since (its block is still
\* open), and the fragment carries the index of that initial chunk.  A
\* step that reads an input_json_delta while no tool call is in progress,
\* or one with an empty partial_json, yields nothing and leaves the locals
\* of the translator unchanged.
C24_FragmentsOfActiveTool ==
    [][/\ (\E i \in DOMAIN Yielded : IsArgumentChunk(Yielded[i]))
          => /\ ReadsLine
             /\ IsJsonDelta(LineRead) /\ LineRead.val # ""
             /\ Len(Yielded) = 1
             /\ StartedAndNoStopSince(Len(received))
             /\ ToolBlockOpen(received)
             /\ InitialChunks # <<>>
             /\ Last(InitialChunks).tool_calls[1].id # None
             /\ Last(InitialChunks).tool_calls[1].name = ToolName
             /\ Yielded[1].tool_calls[1].index = LastInitialIndex
       /\ (/\ ReadsLine
           /\ IsJsonDelta(LineRead)
           /\ (current_tool_use = NoTool \/ LineRead.val = ""))
          => /\ emitted' = emitted
             /\ UNCHANGED streamLocalVars
             /\ pc' = pc
      ]_vars

\* a fragment read for the tool call in progress, which is emitted with
\* its index, and one read after the tool call was closed, which yields
\* nothing
C24_Witness ==
    /\ Len(received) = 4
    /\ IsToolUseStart(received[1])
    /\ IsJsonDelta(received[2]) /\ received[2].val = "{"
    /\ IsBlockStop(received[3])
    /\ IsJsonDelta(received[4]) /\ received[4].val = "}"
    /\ Len(emitted) = 2
    /\ IsInitialChunk(emitted[1])
    /\ IsArgumentChunk(emitted[2])
    /\ emitted[2].tool_calls[1].index = 0
    /\ current_tool_use = NoTool

-----------------------------------------------------------------------------
(* C25: the [DONE] sentinel.                                               *)

IsDone(x) == x.object = "[DONE]"

MessageStopRead == \E j \in 1..Len(received) : IsMessageStop(received[j])

\* C25: every [DONE] item stands right after a finish chunk and is emitted
\* only when a message_stop event was read; a generator that ended without
\* reading a message_stop (the body ended, or the stream failed) emitted
\* neither a finish chunk nor [DONE]; and no [DONE] follows an error line.
C25_DoneOnlyAfterFinish ==
    /\ \A i \in 1..Len(emitted) :
          IsDone(emitted[i]) =>
              /\ i > 1
              /\ IsFinishChunk(emitted[i - 1])
              /\ MessageStopRead
              /\ IsMessageStop(Last(received))
    /\ ~MessageStopRead =>
          \A i \in 1..Len(emitted) :
              ~IsDone(emitted[i]) /\ ~IsFinishChunk(emitted[i])
    /\ \A i \in 1..Len(emitted) :
          IsErrorItem(emitted[i]) =>
              \A k \in (i + 1)..Len(emitted) : ~IsDone(emitted[k])

\* a stream closed by message_stop, and what it ends with
C25_Witness ==
    /\ pc = "ended"
    /\ Len(received) = 3
    /\ IsToolUseStart(received[1])
    /\ IsMessageStop(received[3])
    /\ Len(emitted) >= 3
    /\ IsFinishChunk(emitted[Len(emitted) - 1])
    /\ IsDone(Last(emitted))

-----------------------------------------------------------------------------
(* C26: the generator terminates and yields no more than it reads.  The    *)
(* consumer of the generator keeps iterating and the body of the response  *)
(* is finite: every step that is possible is eventually taken.             *)

\* Longest upstream body (in lines) explored for termination.
MaxLiveLines == 3

NextLive ==
    \/ PipeNoKey
    \/ \E at \in {"messages", "validate", "process"} : PipeBuildRaises(at)
    \/ \E stream \in BOOLEAN : PipeBuild(stream)
    \/ \E exc \in {"ClientError", "TimeoutError"} : SendPostRaises(exc)
    \/ \E hdr \in RetryAfterValues, rid \in RequestIds : SendPost429(hdr, rid)
    \/ \E status \in {200, 500}, rid \in RequestIds, exc \in {None, "ClientError"} :
          SendPostOther(status, rid, exc)
    \/ SendExhausted
    \/ \E exc \in {None, "KeyError"} : PipeHandle(exc)
    \/ \E exc \in {"ClientError", "TimeoutError"} : StreamPostRaises(exc)
    \/ \E rid \in RequestIds : StreamPostOK(rid)
    \/ \E status \in ErrorStatuses, rid \in RequestIds, exc \in {None, "ClientError"} :
          StreamPostError(status, rid, exc)
    \/ \E line \in Lines : Len(received) < MaxLiveLines /\ StreamLine(line)
    \/ \E exc \in {"ClientError", "TimeoutError"} : StreamReadRaises(exc)
    \/ StreamEOF
    \/ \E line \in Lines :
          Len(received) + Len(unread) < MaxLiveLines /\ VendorLineUnread(line)

SpecLive == Init /\ [][NextLive]_vars /\ WF_vars(NextLive)

\* a JSON event whose type the translator does not know
IsUnknownEvent(line) ==
    /\ line.raw = "json"
    /\ line.type \notin {"content_block_start", "content_block_delta",
                         "content_block_stop", "message_stop"}

\* what a step that reads a line yields
YieldBounded ==
    ReadsLine =>
        /\ SubSeq(emitted', 1, Len(emitted)) = emitted
        /\ IF IsMessageStop(LineRead)
           THEN /\ Len(Yielded) = 2
                /\ IsFinishChunk(Yielded[1])
                /\ IsDone(Yielded[2])
           ELSE Len(Yielded) <= 1
        /\ (LineRead.raw = "nodata" \/ IsUnknownEvent(LineRead)) => Yielded = <<>>

\* C26: once pipe returned the generator, the generator ends; every line
\* it reads yields at most one item, except message_stop which yields
\* exactly two (finish chunk, then [DONE]); a line that does not start
\* with "data: " and an event of unknown type yield none; so the output
\* is never longer than the input plus one.
C26_TerminatesAndBounded ==
    /\ (result = Generator) ~> (pc = "ended")
    /\ [][YieldBounded]_vars
    /\ [](Len(emitted) <= Len(received) + 1)

\* a finished stream of three lines that yielded four items
C26_Witness ==
    /\ pc = "ended"
    /\ Len(received) = 3
    /\ IsToolUseStart(received[1])
    /\ IsJsonDelta(received[2])
    /\ IsMessageStop(received[3])
    /\ Len(emitted) = 4

-----------------------------------------------------------------------------
(* C27: one backoff sleep per 429 response.                                *)

RateLimited == {i \in 1..Len(attempts) : attempts[i].status = 429}

\* C27: in a call of _send_request the number of sleeps equals the number
\* of 429 responses received, the third included: a call that exhausted
\* its retries made 3 attempts and 3 sleeps and returns the synthetic
\* response without another attempt.
C27_SleepsEqualRateLimits ==
    /\ Len(sleeps) = Cardinality(RateLimited)
    /\ response = ResponseWrapper(429, "Max retries exceeded") =>
          /\ Len(attempts) = 3
          /\ Len(sleeps) = 3
          /\ posts = 3

-----------------------------------------------------------------------------
(* C21: concurrent invocations do not interfere.                           *)

\* an item, and a value returned by pipe, without the "(Request ID: ...)"
\* suffix
WithoutRequestId(item) ==
    IF item.object = "error" THEN [item EXCEPT !.request_id = None] ELSE item

ItemsWithoutRequestId(items) ==
    [k \in DOMAIN items |-> WithoutRequestId(items[k])]

ResultWithoutRequestId(value) ==
    [value EXCEPT !.content = WithoutRequestId(@)]

\* what the generator of an invocation run alone has yielded, given what
\* the vendor sent it so far; run is the translator run on the lines read
AloneEmitted(c, run) ==
    IF c.failed_at = "post"
    THEN <<ErrorText(IF c.failure = "TimeoutError" THEN "Request timed out"
                     ELSE "Stream error", 0,
                     IF c.failure = "TimeoutError" THEN None ELSE c.failure,
                     None)>>
    ELSE IF c.status = 0 \/ c.pc = "text"
    THEN <<>>
    ELSE IF c.status # 200
    THEN IF c.failed_at = "text"
         THEN <<ErrorText("Stream error", 0, c.failure, None)>>
         ELSE <<ErrorText("Error: HTTP", c.status, "overloaded", None)>>
    ELSE IF c.failed_at = "read"
    THEN run.out \o <<ErrorText("Request timed out", 0, None, None)>>
    ELSE run.out

\* the sleeps of _send_request run alone on the answers it got: one per
\* 429 whose retry-after header is absent or a number
AloneSleeps(tried) ==
    [k \in 1..Cardinality({j \in DOMAIN tried :
                              /\ tried[j].status = 429
                              /\ (tried[j].retry_after = None
                                  \/ IsIntLiteral(tried[j].retry_after))}) |->
        IF tried[k].retry_after = None
        THEN base_delay * (2 ^ (k - 1))
        ELSE IntOf(tried[k].retry_after)]

\* the value pipe returns for a non-streaming invocation run alone
AloneResult(c, last) ==
    IF c.failed_at = "validate"
    THEN ErrorDict("Error", 0, "ValueError", None)
    ELSE IF last.status = 429
    THEN IF last.retry_after = None \/ IsIntLiteral(last.retry_after)
         THEN ErrorDict("Error: HTTP", 429, "Max retries exceeded", None)
         ELSE ErrorDict("Error", 0, "ValueError", None)
    ELSE IF last.exc = "ClientError"
    THEN ErrorDict("Request failed", 0, "ClientError", None)
    ELSE IF last.exc # None
    THEN ErrorDict("Error", 0, last.exc, None)
    ELSE IF last.status = 200
    THEN ResponseText
    ELSE ErrorDict("Error: HTTP", last.status, "body", None)

StreamAlone(c, run) ==
    /\ ItemsWithoutRequestId(c.emitted) = AloneEmitted(c, run)
    /\ c.st = run.st
    /\ c.retry_count = 0 /\ c.sleeps = <<>> /\ c.attempts = <<>>

SendAlone(c) ==
    /\ c.emitted = <<>> /\ c.received = <<>> /\ c.st = InitialLocals
    /\ c.sleeps = AloneSleeps(c.attempts)
    /\ c.retry_count = Len(c.sleeps)
    /\ Len(c.attempts) <= max_retries
    /\ \A k \in 1..(Len(c.attempts) - 1) : c.attempts[k].status = 429
    /\ (c.pc = "returned" /\ c.failed_at # "validate") => c.attempts # <<>>
    /\ c.pc = "returned" =>
          ResultWithoutRequestId(c.result)
              = AloneResult(c, IF c.attempts = <<>>
                               THEN Attempt(0, None, None)
                               ELSE Last(c.attempts))

\* C21: under every interleaving of two invocations at their awaits, what
\* each invocation has yielded or returned equals what it yields or
\* returns when run alone on the same answers of the vendor, the
\* "(Request ID: ...)" suffix of error messages apart: the tool-call
\* accumulator, the tool-call index, the has-tool-calls flag and the retry
\* counter are those of a run alone.
C21_InvocationsDoNotInterfere ==
    \A i \in Invocations :
        IF calls[i].result = Generator
        THEN StreamAlone(calls[i],
                         RunLines(InitialLocals, <<>>, calls[i].received, None))
        ELSE SendAlone(calls[i])

\* both invocations stream, the second one started a tool call while the
\* first one was between two reads, and the first one then closed its own
C21_Witness ==
    /\ calls[1].result = Generator /\ calls[2].result = Generator
    /\ Len(calls[1].received) = 2 /\ Len(calls[2].received) = 1
    /\ IsToolUseStart(calls[1].received[1])
    /\ IsBlockStop(calls[1].received[2])
    /\ IsToolUseStart(calls[2].received[1])
    /\ calls[1].st.tool_call_index = 1
    /\ calls[1].st.current_tool_use = NoTool
    /\ calls[2].st.tool_call_index = 0
    /\ calls[2].st.current_tool_use # NoTool
    /\ request_id = "req_2"

-----------------------------------------------------------------------------
(* C28: the request id of an error message.                                *)

\* the request ids the error values of an invocation report
ReportedIds(c) ==
    {c.emitted[k].request_id : k \in {j \in DOMAIN c.emitted :
                                         IsErrorItem(c.emitted[j])}}
    \cup (IF c.result.type = "dict" THEN {c.result.content.request_id} ELSE {})

\* C28: the request id an invocation appends to an error value is the
\* x-request-id of a response the same invocation received: an invocation
\* that failed before any response, or that runs after or concurrently
\* with another one, reports no request id of another request.
C28_RequestIdOfOwnResponse ==
    \A i \in Invocations : ReportedIds(calls[i]) \ {None} \subseteq calls[i].seen

-----------------------------------------------------------------------------
(* C22: the priority of the credential sources of the CMS tool.            *)

\* the first source that holds something, in the documented order: the
\* Valves setting, the environment variable, the runtime cache, the
\* parameter
FirstOf(setting, variable, runtime, parameter) ==
    IF setting # <<>> THEN clean_credential(setting)
    ELSE IF variable # <<>> THEN clean_credential(variable)
    ELSE IF runtime # <<>> THEN runtime
    ELSE clean_credential(parameter)

\* the runtime cache after a call: the parameter when the three sources
\* above it hold nothing, what it was otherwise
CachedAfter(setting, variable, runtime, parameter) ==
    IF setting = <<>> /\ variable = <<>> /\ runtime = <<>> /\ parameter # <<>>
    THEN clean_credential(parameter)
    ELSE runtime

\* a call of _make_request has resolved its credentials
MakeRequestStep ==
    /\ wp_call'.op = "_make_request"
    /\ <<wp_call, _runtime_token, _runtime_site_id>>'
           # <<wp_call, _runtime_token, _runtime_site_id>>

\* the priority, a source counting as empty when it is the empty string
PriorityOfSources ==
    MakeRequestStep =>
        /\ wp_call'.token
               = FirstOf(cms_valves.WP_ACCESS_TOKEN,
                         EnvironGet(environ, "WP_ACCESS_TOKEN"),
                         _runtime_token, wp_call'.access_token)
        /\ _runtime_token'
               = CachedAfter(cms_valves.WP_ACCESS_TOKEN,
                             EnvironGet(environ, "WP_ACCESS_TOKEN"),
                             _runtime_token, wp_call'.access_token)
        /\ wp_call'.site
               = FirstOf(cms_valves.WP_SITE_ID,
                         EnvironGet(environ, "WP_SITE_ID"),
                         _runtime_site_id, wp_call'.site_id)
        /\ _runtime_site_id'
               = CachedAfter(cms_valves.WP_SITE_ID,
                             EnvironGet(environ, "WP_SITE_ID"),
                             _runtime_site_id, wp_call'.site_id)

\* the priority, a Valves setting and an environment variable counting as
\* empty when nothing but whitespace is in them
PriorityOfCleanedSources ==
    MakeRequestStep =>
        /\ wp_call'.token
               = FirstOf(clean_credential(cms_valves.WP_ACCESS_TOKEN),
                         clean_credential(EnvironGet(environ, "WP_ACCESS_TOKEN")),
                         _runtime_token, wp_call'.access_token)
        /\ _runtime_token'
               = CachedAfter(clean_credential(cms_valves.WP_ACCESS_TOKEN),
                             clean_credential(EnvironGet(environ, "WP_ACCESS_TOKEN")),
                             _runtime_token, wp_call'.access_token)
        /\ wp_call'.site
               = FirstOf(clean_credential(cms_valves.WP_SITE_ID),
                         clean_credential(EnvironGet(environ, "WP_SITE_ID")),
                         _runtime_site_id, wp_call'.site_id)
        /\ _runtime_site_id'
               = CachedAfter(clean_credential(cms_valves.WP_SITE_ID),
                             clean_credential(EnvironGet(environ, "WP_SITE_ID")),
                             _runtime_site_id, wp_call'.site_id)

-----------------------------------------------------------------------------
(* C29: a failed set_wordpress_credentials changes nothing.                *)

\* a call of set_wordpress_credentials has returned an error message
SetCredentialsFailed ==
    /\ wp_call'.op = "set_wordpress_credentials"
    /\ wp_call'.returned # "stored"

FailedSetChangesNothing ==
    SetCredentialsFailed =>
        /\ _credential_cache' = _credential_cache
        /\ environ' = environ

-----------------------------------------------------------------------------
(* C30: the credential cache and the environment agree.                    *)

\* cache and environment hold the same token and the same site id, both
\* there or both missing
CacheAgreesWithEnviron(cache, env) ==
    /\ cache.access_token = EnvironGet(env, "WP_ACCESS_TOKEN")
    /\ cache.site_id = EnvironGet(env, "WP_SITE_ID")
    /\ (cache.access_token = <<>>) <=> (cache.site_id = <<>>)

\* a successful set_wordpress_credentials and a clear_wordpress_credentials
\* make cache and environment agree, and no later call of either breaks
\* the agreement
AgreementKept ==
    (/\ wp_call'.op \in {"set_wordpress_credentials",
                         "clear_wordpress_credentials"}
     /\ \/ wp_call'.returned \in {"stored", "cleared"}
        \/ CacheAgreesWithEnviron(_credential_cache, environ))
        => CacheAgreesWithEnviron(_credential_cache', environ')

\* get_cached_credentials right after clear_wordpress_credentials
EmptyPairAfterClear ==
    (wp_call.op = "clear_wordpress_credentials"
        /\ wp_call'.op = "get_cached_credentials")
        => wp_call'.token = <<>> /\ wp_call'.site = <<>>

\* C30: once a set_wordpress_credentials or clear_wordpress_credentials
\* call has completed, cache access_token equals WP_ACCESS_TOKEN and cache
\* site_id equals WP_SITE_ID (an unset variable counting as empty), both
\* non-empty or both empty, after every later call of either; and
\* get_cached_credentials right after clear_wordpress_credentials returns a
\* pair of empty strings.
C30_CacheAndEnvironAgree == [][AgreementKept /\ EmptyPairAfterClear]_vars

====
